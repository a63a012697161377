------------------------- MODULE MCSessionLifecycle -------------------------
(* Two sessions of either mode.  Two calls at once compete for one tab, or   *)
(* one call at a time meets two tabs and the writes nobody waits for.        *)
EXTENDS SessionLifecycle

TLCM == INSTANCE TLC

CONSTANTS s1, s2, t1, t2, c1, c2

MCSession == {s1, s2}
MCTab == {t1, t2}
MCCall == {c1, c2}
MCTimeouts == {2, 3}

Symmetry == TLCM!Permutations(MCSession) \cup TLCM!Permutations(MCCall)
            \cup TLCM!Permutations(MCTab)

VARIABLE part

Met == {t \in Tab : owner[t] # NoOwner} \cup {w[1] : w \in coming}
       \cup {call[c].tab : c \in {b \in Call : Working(b)}}
       \cup UNION {session[s].tabs : s \in Session}

OneTab == coming = {} /\ Cardinality(Met \ {NoTab}) <= 1

OneCall ==
  /\ Cardinality({c \in Call : Working(c)}) <= 1
  /\ \A c \in Call : call[c].kind \in {"none", "open", "adopt", "release"}
  /\ \A s \in Session : session[s].state = "active" => session[s].mode = "full_profile"

MCInit == Init /\ part \in {"calls", "late"}

MCNext ==
  /\ Next /\ UNCHANGED part
  /\ part = "calls" => OneTab'
  /\ part = "late" => OneCall'

MCSpec == MCInit /\ [][MCNext]_<<part, vars>>
=============================================================================
