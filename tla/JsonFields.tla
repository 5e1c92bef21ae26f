----------------------------- MODULE JsonFields -----------------------------
(***************************************************************************)
(* The extraction of a field from JSON text: neon_parse_json_market_data   *)
(* and scalar_parse_json_market_data, which is there "for comparison/      *)
(* validation" of the first.  They differ in how they look for the field:  *)
(* the first in blocks of Chunk bytes and then byte by byte, the second    *)
(* with strstr.  Text is a sequence of characters; positions count from 0  *)
(* as in the code.                                                         *)
(***************************************************************************)
EXTENDS Integers, Sequences, FiniteSets, FiniteSetsExt

CONSTANTS
  Chunk,         \* 16, the bytes of a vector register
  value_buf_size \* of the caller's buffer

ASSUME JsonAssumption == Chunk \in Nat \ {0} /\ value_buf_size \in Nat \ {0}

Quote == "\""
Backslash == "\\"
Space == " "
Blanks == {Space, "\t"}
Delimiters == {",", "}", "]", Space, "\t", "\n", "\r"}

(* "field_name":                                                           *)
SearchPattern == << Quote, "f", Quote, ":" >>
pattern_len == Len(SearchPattern)

Char(json, i) == json[i + 1]
MatchesAt(json, i) ==
  i + pattern_len <= Len(json) /\ SubSeq(json, i + 1, i + pattern_len) = SearchPattern

(* Variant: a pattern is only found within one block.                      *)
BlockwiseStarts(json) ==
  LET blocks == Chunk * (Len(json) \div Chunk)
  IN  {i \in 0 .. Len(json) - 1 :
         /\ MatchesAt(json, i)
         /\ \/ i < blocks /\ (i % Chunk) + pattern_len <= Chunk
            \/ i >= blocks /\ i < Len(json) - pattern_len}

(* Where the vector version finds the pattern: starting in a whole block,  *)
(* or behind the last one, where the loop stops short of the last place.   *)
(* The text is at least as long as the pattern (json_len - pattern_len is  *)
(* unsigned).                                                              *)
NeonStarts(json) ==
  LET blocks == Chunk * (Len(json) \div Chunk)
  IN  {i \in 0 .. Len(json) - 1 :
         MatchesAt(json, i) /\ (i < blocks \/ i < Len(json) - pattern_len)}

(* strstr, in text that ends with '\0' at json_len.                        *)
ScalarStarts(json) == {i \in 0 .. Len(json) - 1 : MatchesAt(json, i)}

(* Blanks after the colon are skipped.                                     *)
SkipBlanks(json, from) ==
  LET skip[i \in 0 .. Len(json)] ==
        IF i < Len(json) /\ Char(json, i) \in Blanks THEN skip[i + 1] ELSE i
  IN  skip[from]

(* Variant: a backslash does not protect what follows.                     *)
NaiveStringEnd(json, from) ==
  LET end[i \in 0 .. Len(json)] ==
        IF i = Len(json) \/ Char(json, i) = Quote THEN i ELSE end[i + 1]
  IN  end[from]

(* The end of a string value, and of any other.                            *)
StringEnd(json, from) ==
  LET end[i \in 0 .. Len(json)] ==
        CASE i = Len(json) -> i
          [] i < Len(json) /\ Char(json, i) = Quote -> i
          [] i + 1 < Len(json) /\ Char(json, i) = Backslash -> end[i + 2]
          [] OTHER -> end[i + 1]
  IN  end[from]
BareEnd(json, from) ==
  LET end[i \in 0 .. Len(json)] ==
        IF i < Len(json) /\ Char(json, i) \notin Delimiters THEN end[i + 1] ELSE i
  IN  end[from]

NotFound == [result |-> -1]

(* The value behind the first of the starts, cut to the buffer.            *)
Extract(json, starts) ==
  IF starts = {} THEN NotFound
  ELSE LET at == SkipBlanks(json, Min(starts) + pattern_len)
           string == at < Len(json) /\ Char(json, at) = Quote
           from == IF string THEN at + 1 ELSE at
           to == IF string THEN StringEnd(json, from) ELSE BareEnd(json, from)
       IN  [result |-> 0, string |-> string, from |-> from,
            len |-> Min({to - from, value_buf_size - 1})]

neon_parse_json_market_data(json) == Extract(json, NeonStarts(json))
scalar_parse_json_market_data(json) == Extract(json, ScalarStarts(json))
-----------------------------------------------------------------------------
(* What the two versions agree on: text that does not end with the colon   *)
(* of the field.                                                           *)
Agree(json) ==
  ~MatchesAt(json, Len(json) - pattern_len) =>
    neon_parse_json_market_data(json) = scalar_parse_json_market_data(json)

(* What a value is: a string goes up to the first quote with an even       *)
(* number of backslashes in front of it, any other value up to the first   *)
(* delimiter; both to the end of the text if there is none.                *)
Closes(json, from, q) ==
  /\ Char(json, q) = Quote
  /\ \E k \in 0 .. q - from :
       /\ k % 2 = 0
       /\ \A i \in q - k .. q - 1 : Char(json, i) = Backslash
       /\ q - k - 1 >= from => Char(json, q - k - 1) # Backslash
IsValue(json, v) ==
  LET ends == {q \in v.from .. Len(json) - 1 :
                 IF v.string THEN Closes(json, v.from, q)
                             ELSE Char(json, q) \in Delimiters}
      to == Min(ends \cup {Len(json)})
  IN  v.len = Min({to - v.from, value_buf_size - 1})
=============================================================================
