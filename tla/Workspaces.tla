----------------------------- MODULE Workspaces -----------------------------
(***************************************************************************)
(* workspaces.py: the directory or git worktree of one job, as operators   *)
(* on what there is on disk.  No variables: CliJobs decides when they are  *)
(* called.  A path is kept by what the tests of the code ask of it.        *)
(*                                                                         *)
(* "changes" are the ones git reports that the application did not make    *)
(* (_git_is_dirty skips its own files); the private prompt lies inside the *)
(* workspace.  The branch is the one `worktree add -b` makes for the job:  *)
(* nothing in the code ever deletes it.                                    *)
(***************************************************************************)

Kinds == {"directory", "git_worktree"}
SUPPORTED_CLEANUP_POLICIES == {"none", "on_success", "on_completion"}

Disk == [workspace : BOOLEAN, marker : BOOLEAN, changes : BOOLEAN,
         prompt : BOOLEAN, branch : BOOLEAN]

Nothing == [workspace |-> FALSE, marker |-> FALSE, changes |-> FALSE,
            prompt |-> FALSE, branch |-> FALSE]

\* prepare_job_workspace: a worktree that is there is used again; adding one
\* fails while its branch exists, or when the path is taken by other files
\* (a directory that was made anew in its place has no marker).
CanPrepare(disk, kind) ==
  kind = "git_worktree" =>
    (disk.workspace /\ disk.marker) \/ (~disk.workspace /\ ~disk.branch)

Prepared(disk, kind) ==
  [disk EXCEPT !.workspace = TRUE, !.marker = TRUE,
               !.branch = @ \/ kind = "git_worktree"]

\* mkdir with parents, without a marker: ensure_job_workspace,
\* store_response_artifact, store_private_prompt.
Made(disk) == [disk EXCEPT !.workspace = TRUE]

\* store_private_prompt.
WithPrompt(disk) == [Made(disk) EXCEPT !.prompt = TRUE]

\* Mutants: a policy that removes more, and one that removes less.
EagerPolicyRemoves(policy, outcome) == policy # "none"
LazyPolicyRemoves(policy, outcome) == policy # "none" /\ outcome = "completed"

\* The outcomes cleanup_job_workspace acts upon.
PolicyRemoves(policy, outcome) ==
  \/ policy = "on_success" /\ outcome = "completed"
  \/ policy = "on_completion" /\ outcome \in {"completed", "failed", "cancelled"}

\* What cleanup_job_workspace and delete_job_workspace both ask before they
\* remove anything; for a worktree they run git status.
Removable(disk, kind) ==
  /\ disk.marker
  /\ kind = "git_worktree" => ~disk.changes

Removed(disk) == [Nothing EXCEPT !.branch = disk.branch]

\* rmtree follows the test at once; a worktree is left to another git command.
AfterTest(disk, kind) ==
  IF kind = "directory" /\ Removable(disk, kind) THEN Removed(disk) ELSE disk

\* git worktree remove --force: whatever is in the worktree by now.  It fails
\* for a path that is no worktree any more.
AfterRemove(disk) == IF disk.marker THEN Removed(disk) ELSE disk
=============================================================================
