----------------------------- MODULE CommitDiff -----------------------------
(***************************************************************************)
(* What `agentic diff` says of two commits (agentic-core/src/diff.rs and   *)
(* handle_diff in server.rs).  A tree is a function from the names it has  *)
(* to hashes; a commit without a tree for a dimension has the empty one    *)
(* (stage_blob_tree stores no empty tree, so the two cannot differ).       *)
(***************************************************************************)
EXTENDS FiniteSets, Functions

NoTree == <<>>

(* What an object of another kind than Commit, Tree or Blob is in a place  *)
(* of theirs does not arise here: commit.rs stores each in its place.      *)
Both(a, b) == DOMAIN a \cap DOMAIN b

(* diff_tree                                                               *)
TreeDiff(a, b) ==
  [added    |-> {<<n, b[n]>> : n \in DOMAIN b \ DOMAIN a},
   removed  |-> {<<n, a[n]>> : n \in DOMAIN a \ DOMAIN b},
   modified |-> {<<n, a[n], b[n]>> : n \in {m \in Both(a, b) : a[m] # b[m]}}]

(* string_change, hash_change                                              *)
Change(a, b) == IF a = b THEN <<>> ELSE <<a, b>>

(* diff_model_blob: the texts of the two blobs, and their first lines that *)
(* differ; that there is a change is all that is rendered.                 *)
ModelChange(a, b) == Change(a, b)

CommitDiff(a, b) ==
  [code_sha        |-> Change(a.code_sha, b.code_sha),
   prompts         |-> TreeDiff(a.prompts, b.prompts),
   tools           |-> TreeDiff(a.tools, b.tools),
   model           |-> ModelChange(a.model, b.model),
   memory_snapshot |-> Change(a.memory_snapshot, b.memory_snapshot),
   schema_version  |-> Change(a.schema_version, b.schema_version)]

(* render_tree: a line per name, with its sign and without its hashes.     *)
Lines(d) ==
  {<<"+", e[1]>> : e \in d.added} \cup {<<"-", e[1]>> : e \in d.removed}
    \cup {<<"~", m[1]>> : m \in d.modified}

(* DiffOutput has no place for code_sha.                                   *)
DiffOutput(a, b) ==
  LET d == CommitDiff(a, b)
  IN  [prompts        |-> Lines(d.prompts),
       tools          |-> Lines(d.tools),
       model_changed  |-> d.model # <<>>,
       memory_summary |-> d.memory_snapshot,
       schema_summary |-> d.schema_version]

(* The CLI's "(no changes)".                                               *)
NoChanges(out) ==
  /\ out.prompts = {} /\ out.tools = {} /\ ~out.model_changed
  /\ out.memory_summary = <<>> /\ out.schema_summary = <<>>

(* Reference: what a reader of a tree's diff makes of the tree it started  *)
(* from.                                                                   *)
Patched(a, d) ==
  LET gone  == {e[1] : e \in d.removed}
      fresh == {e[1] : e \in d.added}
  IN  [n \in (DOMAIN a \ gone) \cup fresh |->
         IF \E e \in d.added : e[1] = n
         THEN (CHOOSE e \in d.added : e[1] = n)[2]
         ELSE IF \E m \in d.modified : m[1] = n
         THEN (CHOOSE m \in d.modified : m[1] = n)[3]
         ELSE a[n]]
=============================================================================
