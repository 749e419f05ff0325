----------------------------- MODULE GroupOrder -----------------------------
(***************************************************************************)
(* The order in which the group layers of a session are evaluated:         *)
(* groupPolicyLayers and expandGroupOrder of                               *)
(* control-plane/internal/api/group_policy.go, the depth-first walk with   *)
(* its call stack made explicit.  One step is one call, one return or one  *)
(* turn of a loop of the walk.                                             *)
(***************************************************************************)
EXTENDS Naturals, Sequences, SequencesExt, FiniteSets

CONSTANTS
  Name,       \* group names a session or a bundle may mention
  Group,      \* those the bundle defines
  MaxParents, \* bound: inherits entries of one group
  MaxRoots    \* bound: groups of the session

VARIABLES
  inherits,   \* the bundle: group -> its inherits list
  session,    \* the groups of the session, then those of its user
  roots,      \* the same, deduplicated
  at,         \* how many roots have been visited
  stack,      \* frames [group, parents seen] of the visits under way
  visiting, visited,
  out         \* the order so far
vars == <<inherits, session, roots, at, stack, visiting, visited, out>>

SeqUpTo(S, n) == UNION {[1 .. k -> S] : k \in 0 .. n}
Values(s) == {s[i] : i \in DOMAIN s}

-----------------------------------------------------------------------------

\* dedupeStrings: the first occurrence of each name stays
Dedupe(s) ==
  LET firsts[n \in 0 .. Len(s)] ==
        IF n = 0 THEN <<>>
        ELSE IF s[n] \in Values(firsts[n - 1]) THEN firsts[n - 1] ELSE Append(firsts[n - 1], s[n])
  IN  firsts[Len(s)]

Init ==
  /\ inherits \in [Group -> SeqUpTo(Group, MaxParents)]
  /\ session \in SeqUpTo(Name, MaxRoots)
  /\ roots = Dedupe(session)
  /\ at = 0 /\ stack = <<>> /\ visiting = {} /\ visited = {} /\ out = <<>>

\* visit returns at once for a group that is unknown, done or on the stack.
Skips(g) == g \notin Group \/ g \in visited \/ g \in visiting

Enter(g) ==
  /\ stack' = Append(stack, [group |-> g, seen |-> 0])
  /\ visiting' = visiting \cup {g}

VisitRoot_Repeats ==
  /\ stack = <<>> /\ at < Len(roots)
  /\ IF Skips(roots[at + 1]) THEN UNCHANGED <<stack, visiting, at>>
                              ELSE Enter(roots[at + 1]) /\ at' = at + 1
  /\ UNCHANGED <<inherits, session, roots, visited, out>>

\* the loop over the roots
VisitRoot ==
  /\ stack = <<>> /\ at < Len(roots)
  /\ at' = at + 1
  /\ IF Skips(roots[at + 1]) THEN UNCHANGED <<stack, visiting>> ELSE Enter(roots[at + 1])
  /\ UNCHANGED <<inherits, session, roots, visited, out>>

\* the loop over the parents of the innermost visit
VisitParent ==
  /\ stack # <<>>
  /\ LET frame == Last(stack)
         called == [stack EXCEPT ![Len(stack)].seen = @ + 1]
         parent == inherits[frame.group][frame.seen + 1]
     IN  /\ frame.seen < Len(inherits[frame.group])
         /\ IF Skips(parent)
            THEN stack' = called /\ UNCHANGED visiting
            ELSE /\ stack' = Append(called, [group |-> parent, seen |-> 0])
                 /\ visiting' = visiting \cup {parent}
  /\ UNCHANGED <<inherits, session, roots, at, visited, out>>

\* its end: the group is placed after its parents
Leave ==
  /\ stack # <<>>
  /\ LET frame == Last(stack) IN
       /\ frame.seen = Len(inherits[frame.group])
       /\ visiting' = visiting \ {frame.group}
       /\ visited' = visited \cup {frame.group}
       /\ out' = Append(out, frame.group)
  /\ stack' = Front(stack)
  /\ UNCHANGED <<inherits, session, roots, at>>

Done == stack = <<>> /\ at = Len(roots)

Next == VisitRoot \/ VisitParent \/ Leave
Spec == Init /\ [][Next]_vars

-----------------------------------------------------------------------------
(* Properties *)

TypeOK ==
  /\ inherits \in [Group -> SeqUpTo(Group, MaxParents)] /\ session \in SeqUpTo(Name, MaxRoots)
  /\ at \in 0 .. Len(roots)
  /\ stack \in Seq([group : Group, seen : 0 .. MaxParents])
  /\ visiting \subseteq Group /\ visited \subseteq Group /\ out \in Seq(Group)

Closed(S) == \A g \in S : Values(inherits[g]) \subseteq S

\* h is g or one of its ancestors: every set that holds g and with each group
\* its parents holds h.
Inherits(g, h) == \A S \in SUBSET Group : g \in S /\ Closed(S) => h \in S

Before(g, h) == \E i, j \in DOMAIN out : i < j /\ out[i] = g /\ out[j] = h

\* What the walk keeps true at every step: no group is placed twice or while
\* it is on the stack, and the stack is an inheritance chain without repeats.
WalkInvariant ==
  /\ Cardinality(Values(out)) = Len(out) /\ visited = Values(out)
  /\ visiting = {stack[i].group : i \in DOMAIN stack} /\ visiting \cap visited = {}
  /\ Cardinality(visiting) = Len(stack)
  /\ \A i \in 1 .. Len(stack) - 1 :
       stack[i].seen > 0 /\ inherits[stack[i].group][stack[i].seen] = stack[i + 1].group

\* At the end the layers are the known groups of the session and all their
\* ancestors, whatever cycles the bundle has.
Complete ==
  Done => Values(out) = {h \in Group : \E g \in Values(session) \cap Group : Inherits(g, h)}

\* Parents are evaluated before the child, except the one a cycle leads back to.
ParentsFirst ==
  \A g \in Values(out), p \in Group :
    p \in Values(inherits[g]) /\ p # g => Before(p, g) \/ Inherits(p, g)
=============================================================================
