---------------------------- MODULE NestGrammar ----------------------------
(***************************************************************************)
(* The language the manifest scanner is held against, generated by length  *)
(* from a grammar.  With no Departures it is that of manifests as the      *)
(* comments of nest.mncs and manifest.rs give it; each departure is a      *)
(* place where the scanner reads another language than they say:           *)
(*                                                                         *)
(*                       as written              as scanned                *)
(*   "array_root"        the root is an object   or an array               *)
(*   "keyless_member"    an object's first       or a container            *)
(*                       member is a pair                                  *)
(*   "late_container"    an array's element is   after a comma, a nested   *)
(*                       any value               container is neither empty *)
(*                                               nor begun by a container  *)
(*   "split_literal"     white space ends a      or may stand within it    *)
(*                       literal                                           *)
(*                                                                         *)
(* Words carry no white space outside strings: whoever compares a document *)
(* takes out what may stand between tokens, and for "split_literal" what   *)
(* stands within them.                                                     *)
(***************************************************************************)
EXTENDS Nest, SequencesExt

CONSTANTS
    Letters,     \* the byte classes words are made of
    Departures   \* the departures the scanner is granted

Glue(n, Left(_), Right(_)) ==
    UNION {{u \o v : u \in Left(k), v \in Right(n - k)} : k \in 0..n}

Enclosed(open, words, close) == {<<open>> \o w \o <<close>> : w \in words}

-----------------------------------------------------------------------------
RECURSIVE StringContent(_), Container(_, _, _), MorePairs(_, _),
          MoreElements(_, _)

PlainBytes == Letters \ {"quote", "back", "nl", "ctl"}

StringContent(n) ==
    IF n < 0 THEN {}
    ELSE IF n = 0 THEN {<< >>}
    ELSE {<<b>> \o c : b \in PlainBytes, c \in StringContent(n - 1)}
         \cup IF "back" \in Letters
              THEN {<<"back", e>> \o c :
                       e \in Letters \cap {"quote", "back", "n", "t"},
                       c \in StringContent(n - 2)}
              ELSE {}

Strings(n) == Enclosed("quote", StringContent(n - 2), "quote")

Literals(n) ==
    IF n < 1 THEN {}
    ELSE {<<b>> \o c : b \in {l \in Letters : StartsLiteral(l)},
                       c \in [1..(n - 1) -> {l \in Letters : IsLiteralChar(l)}]}

\* late: the value stands after a comma.
Value(n, d, late) == Strings(n) \cup Literals(n) \cup Container(n, d, late)

Pair(n, d) ==
    Glue(n, Strings, LAMBDA k : {<<":">> \o v : v \in Value(k - 1, d, FALSE)})

MorePairs(n, d) ==
    IF n = 0 THEN {<< >>}
    ELSE Glue(n, LAMBDA k : {<<",">> \o p : p \in Pair(k - 1, d)},
                 LAMBDA k : IF k = n THEN {} ELSE MorePairs(k, d))

MoreElements(n, d) ==
    IF n = 0 THEN {<< >>}
    ELSE Glue(n, LAMBDA k : {<<",">> \o v : v \in Value(k - 1, d, TRUE)},
                 LAMBDA k : IF k = n THEN {} ELSE MoreElements(k, d))

\* Containers that may stand first in another: after a comma (late) only
\* where the grammar is as written.
Inner(k, d, late) ==
    IF late /\ "late_container" \in Departures THEN {}
    ELSE Container(k, d, FALSE)

Empty(n, late) ==
    IF n = 2 /\ ~(late /\ "late_container" \in Departures) THEN {<< >>} ELSE {}

\* Of at most d levels.
Object(n, d, late) ==
    LET member(k) == Pair(k, d - 1)
                     \cup IF "keyless_member" \in Departures
                          THEN Inner(k, d - 1, late) ELSE {}
    IN  IF n < 2 \/ d = 0 THEN {}
        ELSE Enclosed("{", Empty(n, late) \cup
                 Glue(n - 2, member, LAMBDA k : MorePairs(k, d - 1)), "}")

Array(n, d, late) ==
    LET element(k) == Strings(k) \cup Literals(k) \cup Inner(k, d - 1, late)
    IN  IF n < 2 \/ d = 0 THEN {}
        ELSE Enclosed("[", Empty(n, late) \cup
                 Glue(n - 2, element, LAMBDA k : MoreElements(k, d - 1)), "]")

Container(n, d, late) == Object(n, d, late) \cup Array(n, d, late)

Documents(n) ==
    Object(n, MaxNest, FALSE)
    \cup IF "array_root" \in Departures THEN Array(n, MaxNest, FALSE) ELSE {}
=============================================================================
