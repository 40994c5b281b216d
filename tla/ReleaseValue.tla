----------------------------- MODULE ReleaseValue -----------------------------
(***************************************************************************)
(* release_value(): the text of a package's release, which is parsed as a  *)
(* 64-bit number and has to fit 32 bits.  A text is the sequence of its    *)
(* characters, each the value of a digit or NotADigit.                     *)
(***************************************************************************)
EXTENDS Integers, Sequences, FiniteSetsExt, SequencesExt

CONSTANTS
  Max32, Max64,            \* The greatest values of the two widths.
  MaxLength                \* The length of the texts considered.

ASSUME WidthsAssumption ==
  /\ {Max32, Max64} \subseteq Nat \ {0} /\ Max32 < Max64
  /\ MaxLength \in Nat

Digits    == 0 .. 9
NotADigit == 10

VARIABLES text, answer

releaseVars == <<text, answer>>

Unread   == [as |-> "unread", value |-> 0]
Rejected == [as |-> "rejected", value |-> 0]

(* std::from_chars(): the longest prefix of digits, unless there is none   *)
(* or its value does not fit; "parsed" keeps its zero then.                *)
Value(s) ==
  LET value[n \in 0 .. Len(s)] == IF n = 0 THEN 0 ELSE 10 * value[n - 1] + s[n]
  IN  value[Len(s)]

FromChars(s) ==
  LET read   == Max({n \in 0 .. Len(s) : \A i \in 1 .. n : s[i] \in Digits})
      number == Value(SubSeq(s, 1, read))
  IN  IF read = 0 \/ number > Max64
        THEN [failed |-> TRUE, read |-> read, parsed |-> 0]
        ELSE [failed |-> FALSE, read |-> read, parsed |-> number]

FitsWhenCast(parsed) == parsed % (Max32 + 1) # 0                  \* mutant

Fits(parsed) == parsed # 0 /\ parsed <= Max32

Decide ==
  /\ answer = Unread
  /\ LET result == FromChars(text)
     IN  answer' = IF \/ text = << >> \/ (Len(text) > 1 /\ text[1] = 0)
                      \/ result.failed \/ result.read # Len(text) \/ ~Fits(result.parsed)
                     THEN Rejected
                     ELSE [as |-> "accepted", value |-> result.parsed % (Max32 + 1)]
  /\ UNCHANGED text

ReleaseInit == text \in BoundedSeq(Digits \union {NotADigit}, MaxLength) /\ answer = Unread

ReleaseSpec == ReleaseInit /\ [][Decide]_releaseVars

-----------------------------------------------------------------------------
(* Properties.                                                             *)

(* The digits of a positive number, as it is written.                      *)
Decimal ==
  LET digits[n \in Nat] == IF n = 0 THEN << >> ELSE Append(digits[n \div 10], n % 10)
  IN  digits

(* The releases accepted are the numbers from 1 to the greatest 32-bit     *)
(* value, each in its one canonical writing and with its own value.        *)
CanonicalOnly ==
  answer # Unread =>
    IF \E n \in 1 .. Max32 : Decimal[n] = text
      THEN answer.as = "accepted" /\ Decimal[answer.value] = text
      ELSE answer = Rejected

=============================================================================
