------------------------------ MODULE GitSync ------------------------------
(***************************************************************************)
(* Synchronisation with a git repository (engine/git_sync.py), one command *)
(* of git at a time.  Between two commands of a synchronisation the engine *)
(* and its user go on changing files; .gitignore and the branch that is    *)
(* checked out they change between synchronisations.                       *)
(*                                                                         *)
(* A file is an output, which .gitignore has to keep out, or not; what git *)
(* tracks already .gitignore does not keep out.  A commit is a number; a   *)
(* branch is the set of its commits.  git itself and the remote are        *)
(* external; each command may fail for reasons of its own.                 *)
(***************************************************************************)
EXTENDS Naturals, FiniteSets

CONSTANTS
    Branches,
    Target,         \* sync_to_git(branch = ...)
    AutoCreate, Push,   \* and its auto_create_branch and push
    MaxCommits      \* bound: commits in all

VARIABLES
    step,           \* of sync_to_git()
    git,            \* is there a .git directory, with a remote, or not?
    ignore,         \* .gitignore: do the required patterns occur in its text, and are
                    \* those that occur rules in force, no comment, negation or longer name?
    changed,        \* the kinds of files that are changed or untracked
    staged,         \* the kinds that are staged
    current,        \* the branch that is checked out
    local,          \* the branches that exist -> their commits
    remote,         \* the branches of the remote -> their commits
    commits,        \* what each commit has added
    result,         \* status and push of the last synchronisation, and its commit, 0 for none
    exposed         \* history: a .gitignore was left as it was with patterns not in force

repoVars == <<git, current, local, commits>>
fileVars == <<ignore, exposed, changed, staged>>
vars == <<step, repoVars, fileVars, remote, result>>

\* New outputs, outputs that git tracks, and everything else.
Outputs == {"output", "kept"}
Kinds == Outputs \union {"source"}
NoResult == [status |-> "unknown", push |-> "none", commit |-> 0]

TypeOK ==
    /\ step \in {"idle", "status", "add", "commit", "branch", "push"}
    /\ git \in {"none", "local", "remote"}
    /\ ignore \in [mentioned : BOOLEAN, inForce : BOOLEAN] /\ exposed \in BOOLEAN
    /\ changed \subseteq Kinds /\ staged \subseteq Kinds
    /\ current \in Branches
    /\ DOMAIN local \subseteq Branches /\ DOMAIN remote \subseteq Branches
    /\ \A b \in DOMAIN local : local[b] \subseteq DOMAIN commits
    /\ result.status \in {"unknown", "clean", "committed", "error"}
    /\ result.push \in {"none", "success", "failed"}

Init ==
    /\ step = "idle" /\ git = "none" /\ exposed = FALSE
    /\ ignore \in [mentioned : BOOLEAN, inForce : BOOLEAN]
    /\ changed \in SUBSET {"output", "source"} /\ staged = {}
    /\ current = Target /\ local = <<>> /\ remote = <<>> /\ commits = <<>>
    /\ result = NoResult

-----------------------------------------------------------------------------
(* The repository and its user.                                            *)

\* What `git status` shows and `git add .` stages.
Shown(files, rules) ==
    IF rules.mentioned /\ rules.inForce THEN files \ {"output"} ELSE files
Visible == Shown(changed, ignore)

\* ensure_gitignore(): a pattern that occurs anywhere in the text is taken to be there;
\* what is missing is appended, which changes the file.
WithRules == [ignore EXCEPT !.mentioned = TRUE]
WithIgnore == IF ignore.mentioned THEN changed ELSE changed \union {"source"}

\* f with another value at x, or with x besides.
With(f, x, value) == [y \in DOMAIN f \union {x} |-> IF y = x THEN value ELSE f[y]]

Committed(files) ==
    LET n == Cardinality(DOMAIN commits) + 1
        old == IF current \in DOMAIN local THEN local[current] ELSE {}
    IN  /\ commits' = With(commits, n, files)
        /\ local' = With(local, current, old \union {n})

\* init_repo(), of which each command may fail; a directory that has .git is left as it is.
InitRepo ==
    LET files == Shown(WithIgnore, WithRules) IN
    /\ git = "none" /\ step = "idle"
    /\ ignore' = WithRules /\ exposed' = (exposed \/ ~ignore.inForce)
    /\ current' = Target
    /\ \/ /\ git' = "local" /\ staged' \in {{}, files} /\ changed' = WithIgnore \ staged'
          /\ UNCHANGED <<local, commits>>
       \/ /\ git' \in {"local", "remote"} /\ staged' = {} /\ changed' = WithIgnore \ files
          /\ Committed(files)
    /\ UNCHANGED <<step, remote, result>>

\* An output that git tracks is one that was staged or committed before.
Change(kind) ==
    /\ kind \notin changed /\ changed' = changed \union {kind}
    /\ kind = "kept" => "output" \in staged \union UNION {commits[n] : n \in DOMAIN commits}
    /\ UNCHANGED <<step, repoVars, ignore, exposed, staged, remote, result>>

EditIgnore ==
    /\ step = "idle" /\ ignore' \in [mentioned : BOOLEAN, inForce : BOOLEAN]
    /\ changed' = changed \union {"source"}
    /\ UNCHANGED <<step, repoVars, exposed, staged, remote, result>>

\* Another branch is checked out, and made if it is not there; before the first commit
\* there is nothing to make it from.
Checkout(b) ==
    /\ step = "idle" /\ git # "none" /\ b # current
    /\ current' = b
    /\ local' = IF b \in DOMAIN local \/ current \notin DOMAIN local THEN local
                ELSE With(local, b, local[current])
    /\ UNCHANGED <<step, git, commits, fileVars, remote, result>>

-----------------------------------------------------------------------------
(* sync_to_git().                                                          *)

\* As EnsureGitignore below, for a .gitignore that is not there only.
EnsureGitignoreOnce ==
    /\ step = "idle" /\ git # "none"
    /\ result' = NoResult
    /\ step' = "status"
    /\ UNCHANGED <<repoVars, fileVars, remote>>

EnsureGitignore ==
    /\ step = "idle" /\ git # "none"
    /\ ignore' = WithRules /\ exposed' = (exposed \/ ~ignore.inForce)
    /\ changed' = WithIgnore /\ result' = NoResult
    /\ step' = "status"
    /\ UNCHANGED <<repoVars, staged, remote>>

\* get_git_status(): with nothing staged, changed or untracked there is nothing to do.  A
\* command that fails prints nothing, which reads the same.
GetGitStatus ==
    /\ step = "status"
    /\ \/ step' = "idle" /\ result' = [result EXCEPT !.status = "clean"]
       \/ Visible \union staged # {} /\ step' = "add" /\ UNCHANGED result
    /\ UNCHANGED <<repoVars, fileVars, remote>>

\* What a command that fails raises; the commit of this synchronisation stays, if it was made.
Fail ==
    /\ step' = "idle" /\ result' = [result EXCEPT !.status = "error"]
    /\ UNCHANGED <<repoVars, fileVars, remote>>

AddAll ==
    /\ step = "add"
    /\ \/ Fail
       \/ /\ step' = "commit"
          /\ staged' = staged \union Visible /\ changed' = changed \ Visible
          /\ UNCHANGED <<repoVars, ignore, exposed, remote, result>>

\* The commit may fail, for want of an identity say; that raises.
Commit ==
    /\ step = "commit"
    /\ \/ Fail
       \/ /\ Cardinality(DOMAIN commits) < MaxCommits
          /\ Committed(staged)
          /\ staged' = {} /\ step' = "branch"
          /\ result' = [result EXCEPT !.status = "committed", !.commit = Cardinality(DOMAIN commits')]
          /\ UNCHANGED <<git, current, ignore, exposed, changed, remote>>

\* A target that does not exist is made from the branch that is checked out; also one that
\* a failing `git branch --list` does not show, and then checkout raises.
EnsureBranch ==
    /\ step = "branch"
    /\ \/ AutoCreate /\ Fail
       \/ /\ step' = IF Push THEN "push" ELSE "idle"
          /\ IF AutoCreate /\ Target \notin DOMAIN local
             THEN current' = Target /\ local' = With(local, Target, local[current])
             ELSE UNCHANGED <<current, local>>
          /\ UNCHANGED <<git, commits, fileVars, remote, result>>

\* The target is pushed, whatever is checked out.
PushTarget ==
    /\ step = "push" /\ step' = "idle"
    /\ \/ /\ git = "remote" /\ Target \in DOMAIN local
          /\ remote' = With(remote, Target, local[Target])
          /\ result' = [result EXCEPT !.push = "success"]
       \/ /\ result' = [result EXCEPT !.push = "failed"] /\ UNCHANGED remote
    /\ UNCHANGED <<repoVars, fileVars>>

Next ==
    \/ InitRepo
    \/ \E kind \in Kinds : Change(kind)
    \/ EditIgnore
    \/ \E b \in Branches : Checkout(b)
    \/ EnsureGitignore \/ GetGitStatus \/ AddAll \/ Commit \/ EnsureBranch \/ PushTarget

Spec == Init /\ [][Next]_vars

-----------------------------------------------------------------------------
(* Properties.                                                             *)

\* No output gets into a commit, new or tracked, whatever is edited, staged, or left over from
\* a synchronisation that failed - as long as no synchronisation has met a .gitignore whose
\* text has a pattern that is not in force, a comment, a negation or part of a longer name.
OutputsStayOut == ~exposed => \A n \in DOMAIN commits : commits[n] \intersect Outputs = {}

\* "Ensure .gitignore exists with proper exclusions." (ensure_gitignore(), git_sync.py:144).
ExclusionsProper == \A n \in DOMAIN commits : commits[n] \intersect Outputs = {}

\* "Working tree clean, nothing to commit" (git_sync.py:239): a synchronisation that says so
\* leaves nothing behind.
CleanIsClean ==
    [][step = "status" /\ result'.status = "clean" => Visible \union staged = {}]_vars

\* A synchronisation that says that it has pushed has pushed what it has committed ("Branch:
\* Target branch.", git_sync.py:220): the commit may be on another branch.
PushedIsThere ==
    step = "idle" /\ result.push = "success" => Target \in DOMAIN remote /\ result.commit \in remote[Target]

\* With nothing left to commit, what was committed is on the remote: a push that has failed is
\* not tried again.
CleanIsPushed ==
    step = "idle" /\ result.status = "clean" /\ git = "remote" /\ current = Target =>
        Target \in DOMAIN remote /\ local[Target] \subseteq remote[Target]
=============================================================================
