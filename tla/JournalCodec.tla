------------------------------ MODULE JournalCodec ------------------------------
(***************************************************************************)
(* The canonical form of a Decimal in the journal codec                    *)
(* (src/src/shadow/execution/journal_codec.py). A Decimal is its tuple of  *)
(* sign, digits and exponent, of which many are the same number; the codec *)
(* writes one of them for all. SHA-256 is taken to be injective, so that   *)
(* the digest of a value is its canonical form.                            *)
(***************************************************************************)
EXTENDS Integers, Sequences, SequencesExt

\* The tuple of a Decimal: as_tuple gives no leading zeros.
IsDecimal(d) ==
    /\ d.sign \in {0, 1} /\ d.exponent \in Int
    /\ d.digits \in Seq(0 .. 9) /\ d.digits # <<>>
    /\ d.digits[1] # 0 \/ Len(d.digits) = 1

\* The digits that are left when the trailing zeros, all but the first digit, go.
Significant(digits) ==
    CHOOSE n \in 1 .. Len(digits) :
        /\ n = 1 \/ digits[n] # 0
        /\ \A k \in n + 1 .. Len(digits) : digits[k] = 0

\* Mutant: a number is encoded as it is written.
DecimalTextAsWritten(d) == <<d.sign, d.digits, d.exponent>>

\* _decimal_text.
DecimalText(d) ==
    LET n == Significant(d.digits) IN
    IF \A k \in DOMAIN d.digits : d.digits[k] = 0 THEN <<0, <<0>>, 0>>
    ELSE <<d.sign, SubSeq(d.digits, 1, n), d.exponent + Len(d.digits) - n>>

AddDigit(n, digit) == 10 * n + digit

\* Equality of Decimals, which compares the numbers: it is what the dataclasses'
\* comparisons use. MinExponent bounds the exponents from below; a number is counted in
\* units of its power of ten.
SameNumber(d, e, MinExponent) ==
    LET Units(x) == x.digits \o [k \in 1 .. x.exponent - MinExponent |-> 0]
        Magnitude(x) == FoldLeft(AddDigit, 0, Units(x))
        Number(x) == IF x.sign = 1 THEN -Magnitude(x) ELSE Magnitude(x)
    IN  Number(d) = Number(e)

=============================================================================
