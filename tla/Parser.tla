--------------------------------- MODULE Parser ---------------------------------
(***************************************************************************)
(* How a payload of EcoFlow becomes metrics: flatten makes one key of each *)
(* path to a value, extractIndicesAndValueList takes the positions in      *)
(* lists out of it (internal/server/service/ecoflow_parser.go).            *)
(*                                                                         *)
(* A key is a sequence of tokens: an underscore, a numeral (digits), or a  *)
(* word (other characters).  A regular expression that removes a numeral   *)
(* removes it as a whole.                                                  *)
(***************************************************************************)
EXTENDS Naturals, Sequences, SequencesExt, FiniteSets, FiniteSetsExt

CONSTANTS Names,     \* names of members of objects, as sequences of tokens
          Numerals,  \* positions in lists, as tokens
          MaxDepth   \* bound: steps of a path

ASSUME ParserAssumption ==
  /\ \A n \in Names : n \in Seq(STRING)
  /\ "_" \notin Numerals
  /\ MaxDepth \in Nat

(* A step into an object, or into a list. *)
Member(n)  == [of |-> "object", name |-> n]
Element(i) == [of |-> "list", name |-> <<i>>]

Steps == {Member(n) : n \in Names} \cup {Element(i) : i \in Numerals}

(* A payload is an object. *)
Paths == {p \in SeqOf(Steps, MaxDepth) : p # <<>> /\ p[1].of = "object"}

(* Both paths can lead to values of one payload. *)
Coexist(p, q) ==
  \E i \in DOMAIN p \cap DOMAIN q :
    /\ SubSeq(p, 1, i - 1) = SubSeq(q, 1, i - 1)
    /\ p[i] # q[i] /\ p[i].of = q[i].of

-----------------------------------------------------------------------------
(* The code *)

(* The elements of q at the places I, in their order. *)
At(q, I) ==
  LET kept[i \in 0..Len(q)] ==
        IF i = 0 THEN <<>>
        ELSE IF i \in I THEN Append(kept[i - 1], q[i]) ELSE kept[i - 1]
  IN kept[Len(q)]

(* flattenPrefix. *)
Flatten(path) ==
  LET prefix[k \in 0..Len(path)] ==
        IF k = 0 THEN <<>>
        ELSE IF prefix[k - 1] = <<>> /\ path[k].of = "object" THEN path[k].name
        ELSE prefix[k - 1] \o <<"_">> \o path[k].name
  IN prefix[Len(path)]

(* The matches of _(\d+)_? in a key, from the left: the last underscore     *)
(* belongs to the match, so that it does not begin the next one.  A match   *)
(* starts at start and ends before next.                                    *)
Matches(key) ==
  LET from[i \in Nat] ==
        IF i >= Len(key) THEN <<>>
        ELSE IF key[i] = "_" /\ key[i + 1] \in Numerals
          THEN LET next == IF i + 2 <= Len(key) /\ key[i + 2] = "_" THEN i + 3 ELSE i + 2
               IN <<[start |-> i, next |-> next]>> \o from[next]
          ELSE from[i + 1]
  IN from[1]

(* Faulty variant of Indices: every position is kept as the same index. *)
IndicesSame(key) ==
  LET found == Matches(key)
  IN IF found = <<>> THEN <<>> ELSE <<key[found[Len(found)].start + 1]>>

Indices(key) ==
  LET found == Matches(key) IN [i \in DOMAIN found |-> key[found[i].start + 1]]

(* Faulty variant of Cut: the offset counts the underscore that stays. *)
CutTooFar(done, found) ==
  LET start == found.start - done.offset
      next  == found.next - done.offset
      size  == Len(done.text)
      stays == done.text[next - 1] = "_" /\ next <= size
  IN [text |-> SubSeq(done.text, 1, start - 1)
                 \o SubSeq(done.text, IF stays THEN next - 1 ELSE next, size),
      offset |-> done.offset + next - start]

(* A match is cut from what is left of the key, where it has moved by       *)
(* offset; its last underscore stays when something follows.                *)
Cut(done, found) ==
  LET start == found.start - done.offset
      next  == found.next - done.offset
      size  == Len(done.text)
      rest  == IF done.text[next - 1] = "_" /\ next <= size THEN next - 1 ELSE next
  IN [text |-> SubSeq(done.text, 1, start - 1) \o SubSeq(done.text, rest, size),
      offset |-> done.offset + rest - start]

(* Several underscores become one, none is left at the ends. *)
Tidy(text) ==
  At(text, {i \in DOMAIN text :
              text[i] # "_" \/ /\ i < Len(text) /\ text[i + 1] # "_"
                               /\ \E j \in 1 .. i - 1 : text[j] # "_"})

(* What is left of a key when its matches are cut, one after the other. *)
WithoutMatches(key, found) ==
  LET done[m \in 0..Len(found)] ==
        IF m = 0 THEN [text |-> key, offset |-> 0] ELSE Cut(done[m - 1], found[m])
  IN done[Len(found)].text

Cleaned(key) == Tidy(WithoutMatches(key, Matches(key)))

Joined(tokens) == FoldLeft(LAMBDA name, token : name \o token, "", tokens)

(* extractIndicesAndValueList: indices are numbered from the left. *)
Parsed(path) ==
  LET key == Flatten(path) IN [key |-> Joined(Cleaned(key)), indices |-> Indices(key)]

-----------------------------------------------------------------------------
(* What is to be expected *)

(* A name, without an underscore at its ends or next to another one, in     *)
(* which no numeral looks like a position.                                  *)
PlainName(n) ==
  /\ n # <<>> /\ n[Len(n)] # "_"
  /\ \A i \in DOMAIN n : n[i] \in Numerals \cup {"_"} => i > 1 /\ n[i - 1] # "_"

Plain(path) == \A i \in DOMAIN path : path[i].of = "object" => PlainName(path[i].name)

NoListInList(path) ==
  \A i \in DOMAIN path : i > 1 => {path[i].of, path[i - 1].of} # {"list"}

NoUnderscore(path) == \A i \in DOMAIN path : "_" \notin ToSet(path[i].name)

(* The names from the outside in, and the positions from the outside in. *)
StepsOf(path, of) == At(path, {i \in DOMAIN path : path[i].of = of})

Expected(path) ==
  LET names == StepsOf(path, "object")
      positions == StepsOf(path, "list")
  IN [key |-> Joined(Flatten(names)),
      indices |-> [i \in DOMAIN positions |-> positions[i].name[1]]]

(* What the code makes of every path. *)
ParsedPaths == {[path |-> p, parsed |-> Parsed(p)] : p \in Paths}
=============================================================================
