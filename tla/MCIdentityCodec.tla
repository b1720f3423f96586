--------------------------- MODULE MCIdentityCodec ---------------------------
(* Texts over {a, b, :} up to five characters.                            *)
EXTENDS IdentityCodec

MCChars == {"a", "b", ":"}

==============================================================================
