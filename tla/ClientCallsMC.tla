--------------------------- MODULE ClientCallsMC ----------------------------
(* Constants of the run of ClientCalls: one commit and one rollback, three *)
(* servers asked two at a time.                                            *)
EXTENDS ClientCalls, TLC

CONSTANTS commit, rollback, s1, s2, s3, m1, m2

Kinds == (commit :> "commit" @@ rollback :> "rollback")

(* One server that changes, two that do not.                               *)
SomeOffers == (s1 :> {m1, m2} @@ s2 :> {m2} @@ s3 :> {m1})

Entry(name, url) == [name |-> name, url |-> url]

Setup(mcp, key, attested) == [mcp |-> mcp, key |-> key, attested |-> attested]
Three == <<Entry(s1, "https"), Entry(s2, "http_loopback"), Entry(s3, "https")>>

One == <<Entry(s1, "https")>>
Bare == Setup(<<>>, "absent", FALSE)
NeverStarted ==
  {Setup(<<Entry(s1, "https"), Entry(s1, "https")>>, "key", TRUE),
   Setup(<<Entry(s2, "http_remote")>>, "key", TRUE),
   Setup(<<>>, "wrong_length", TRUE)}

(* Three servers and two requests; one server and three requests; a        *)
(* target named by its hash, which a rollback leaves what it was.          *)
ThreeWorlds ==
  {[setups |-> NeverStarted \cup {Bare, Setup(Three, "key", TRUE)},
    byHash |-> {}, requests |-> 2],
   [setups |-> NeverStarted \cup {Bare, Setup(One, "key", TRUE)},
    byHash |-> {}, requests |-> 3],
   [setups |-> {Setup(<<>>, "key", TRUE)}, byHash |-> {rollback}, requests |-> 3]}

Token(commit_signed, uid, age) == [signs |-> commit_signed, uid |-> uid, age |-> age]

SomeTokens == {Token(1, rollback, -(TTL + 1)), Malformed}

(* Diffs of all trees over two names (ClientCalls_proofs has all trees).   *)
SmallTrees == UNION {[names -> {m1, m2}] : names \in SUBSET {s1, s2}}

ASSUME DiffsReplay ==
  \A s, t \in SmallTrees : Patched(s, TreeDiff(s, t)) = t
=============================================================================
