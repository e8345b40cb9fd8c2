-------------------------------- MODULE Subjects --------------------------------
(***************************************************************************)
(* NATS subjects as sequences of tokens, and the coverage test of          *)
(* src/src/server/infrastructure/subject-utils.ts that provisioning and    *)
(* binding rely on.  A subject is literal, or a pattern in which "*"       *)
(* stands for one token and a last ">" for one token or more.              *)
(***************************************************************************)
EXTENDS Naturals, Sequences

\* A pattern that ends in ">", and the tokens before it.
Tailed(p) == p # <<>> /\ p[Len(p)] = ">"
Fixed(p) == IF Tailed(p) THEN Len(p) - 1 ELSE Len(p)

\* External: what the server matches.
Matches(p, s) ==
  /\ IF Tailed(p) THEN Len(s) >= Len(p) ELSE Len(s) = Len(p)
  /\ \A i \in 1 .. Fixed(p) : p[i] \in {"*", s[i]}

\* External: two patterns that the server calls overlapping, as some subject matches
\* both.
Overlaps(p, q) ==
  /\ Tailed(p) \/ Fixed(p) >= IF Tailed(q) THEN Len(q) ELSE Fixed(q)
  /\ Tailed(q) \/ Fixed(q) >= IF Tailed(p) THEN Len(p) ELSE Fixed(p)
  /\ \A i \in 1 .. Fixed(p) :
       i <= Fixed(q) => (p[i] = q[i] \/ "*" \in {p[i], q[i]})

\* Mutant: a trailing ">" is taken to stand for no token too.
SubjectCoversEmptyTail(broad, narrow) ==
  /\ broad # narrow
  /\ \A i \in 1 .. Fixed(broad) :
       /\ i <= Len(narrow)
       /\ narrow[i] # ">"
       /\ broad[i] \in {"*", narrow[i]}
  /\ Tailed(broad) \/ Len(broad) = Len(narrow)

\* subjectCovers(): the loop over the tokens of `broad`, false for equal arguments.
SubjectCovers(broad, narrow) ==
  /\ broad # narrow
  /\ \A i \in 1 .. Fixed(broad) :
       /\ i <= Len(narrow)
       /\ narrow[i] # ">"
       /\ broad[i] \in {"*", narrow[i]}
  /\ IF Tailed(broad) THEN Len(broad) <= Len(narrow) ELSE Len(broad) = Len(narrow)

CoversOrEquals(broad, s) == broad = s \/ SubjectCovers(broad, s)
================================================================================
