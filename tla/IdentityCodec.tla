---------------------------- MODULE IdentityCodec ----------------------------
(***************************************************************************)
(* The text form of interconnect_core::Identity (identity.rs): Display     *)
(* writes "scheme:payload", FromStr splits at the first ':' and rejects an *)
(* empty scheme.  Text is a sequence over a small alphabet that contains   *)
(* the separator; the state is one text, and every text up to MaxLen is an *)
(* initial state, so each invariant is checked for all of them.            *)
(***************************************************************************)
EXTENDS Integers, Sequences, SequencesExt

CONSTANTS
  Chars,    \* the alphabet of texts, the separator included
  Colon,    \* the ':' separator
  MaxLen    \* longest text checked

ASSUME Colon \in Chars /\ MaxLen \in Nat

VARIABLE text

\* An Identity value: the two fields of the struct.
Ident(scheme, payload) == [scheme |-> scheme, payload |-> payload]

\* Results of FromStr: Ok(identity), Err(MissingColon(s)), Err(EmptyScheme).
Ok(id) == [ok |-> TRUE, id |-> id]
MissingColon(s) == [ok |-> FALSE, err |-> "MissingColon", text |-> s]
EmptyScheme == [ok |-> FALSE, err |-> "EmptyScheme"]

\* impl Display for Identity: write!(f, "{}:{}", scheme, payload).
Format(id) == id.scheme \o <<Colon>> \o id.payload

\* Mutant of Parse: splits at the last ':' (rsplit_once).
ParseLastColon(s) ==
  LET i == SelectLastInSeq(s, LAMBDA ch : ch = Colon)
  IN IF i = 0 THEN MissingColon(s)
     ELSE IF i = 1 THEN EmptyScheme
     ELSE Ok(Ident(SubSeq(s, 1, i - 1), SubSeq(s, i + 1, Len(s))))

\* Mutant of Parse: the scheme.is_empty() check is missing.
ParseNoEmptyCheck(s) ==
  LET i == SelectInSeq(s, LAMBDA ch : ch = Colon)
  IN IF i = 0 THEN MissingColon(s)
     ELSE Ok(Ident(SubSeq(s, 1, i - 1), SubSeq(s, i + 1, Len(s))))

\* impl FromStr for Identity: split_once(':'), then reject an empty scheme.
Parse(s) ==
  LET i == SelectInSeq(s, LAMBDA ch : ch = Colon)
  IN IF i = 0 THEN MissingColon(s)
     ELSE IF i = 1 THEN EmptyScheme
     ELSE Ok(Ident(SubSeq(s, 1, i - 1), SubSeq(s, i + 1, Len(s))))

Init == text \in BoundedSeq(Chars, MaxLen)

\* The codec keeps no state: each text is checked on its own.
Next == UNCHANGED text

Spec == Init /\ [][Next]_text

-----------------------------------------------------------------------------
\* Identities whose scheme and payload together spell the current text:
\* the text cut at every position.
Cuts == {Ident(SubSeq(text, 1, k), SubSeq(text, k + 1, Len(text))) : k \in 0..Len(text)}

\* A valid identity (spec 3): a non-empty scheme without the separator.
Valid(id) == id.scheme # <<>> /\ ~Contains(id.scheme, Colon)

\* Round-trip law (spec 4.1, 8): for every valid identity x,
\* parse(format(x)) == x, the payload's own ':' characters included.
RoundTrip == \A x \in Cuts : Valid(x) => Parse(Format(x)) = Ok(x)

\* Error kinds (spec 8): a text without ':' fails with MissingColon, one
\* that starts with ':' with EmptyScheme, and every other text parses to an
\* identity that formats back to that same text.
ErrorKinds ==
  /\ ~Contains(text, Colon) <=> Parse(text) = MissingColon(text)
  /\ (text # <<>> /\ text[1] = Colon) <=> Parse(text) = EmptyScheme
  /\ Parse(text).ok => Format(Parse(text).id) = text

\* Identity::new builds any scheme; the round trip holds for all of them
\* only if the constructor enforced validity (it does not).
RoundTripNew == \A x \in Cuts : Parse(Format(x)) = Ok(x)
==============================================================================
