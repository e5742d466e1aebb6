---------------------------- MODULE PullRequests ----------------------------
(***************************************************************************)
(* The Terraform route of an approval (maybe_open_pr and                   *)
(* TerraformPRRemediator) and the job that follows the pull requests       *)
(* (sync_open_prs).  Request threads clone the repository, look the        *)
(* resource up, cut its block out, push a branch and open a pull request,  *)
(* each by a command that may fail or time out; people merge, close and    *)
(* reopen pull requests, delete branches, edit the code and skip or        *)
(* restore recommendations meanwhile.  RecommendationLifecycle has only    *)
(* the outcomes of this route, and all that happens on the other one.      *)
(***************************************************************************)
EXTENDS Integers, Sequences, FiniteSets

CONSTANTS
    Workers,        \* request threads
    Resources,      \* one recommendation each
    Blocks,         \* resource blocks of the Terraform code
    Declares,       \* the block behind a resource in Terraform's state, or None
    Root,           \* the blocks of the root module, which the mapper can locate
    Routed,         \* resources for which the policy requires a pull request
    Wanted,         \* what a recommendation asks for: "remove" or "change"
    Default,        \* the default branch of the repository
    Bases,          \* what base_branch of the settings may name
    Versions,       \* what a branch may declare and refer to at first
    None,
    MaxApprovals, MaxFaults, MaxMoves      \* bounds, for TLC

ASSUME PullRequestsAssumption ==
    /\ None \notin Blocks /\ Root \subseteq Blocks /\ Routed \subseteq Resources
    /\ \A r \in Resources : Declares[r] \in {None} \cup Blocks
    /\ \A r \in Resources : Wanted[r] \in {"remove", "change"}
    /\ \A v \in Versions : v.blocks \subseteq Blocks /\ v.refs \subseteq v.blocks
    /\ MaxApprovals \in Nat /\ MaxFaults \in Nat /\ MaxMoves \in Nat

VARIABLES
    base,       \* the branch that pull requests are opened against
    declared,   \* blocks declared in each branch
    refs,       \* blocks that other code of the branch refers to
    branches,   \* names of the branches wasteless pushed
    prs,        \* pull requests, in the order of their numbers
    rec,        \* status of each recommendation
    url,        \* pr_url of each recommendation: a number, or 0
    at,         \* the approval in hand of each thread
    sync,       \* the run of terraform_pr_sync_job
    api,        \* resources sent down the direct route, in earnest
    blind,      \* those of them whose policy could not be read
    late,       \* blocks referred to anew while their removal was under way
    reopened, overtaken,  \* pull requests reopened, rows whose url changed under
                          \* a run of the job
    approvals, faults, moves

vars == <<base, declared, refs, branches, prs, rec, url, at, sync, api, blind, late,
          reopened, overtaken, approvals, faults, moves>>

github == <<base, declared, refs, branches, prs, late, reopened>>
rows == <<rec, url>>
route == <<api, blind>>
bounds == <<approvals, faults, moves>>

Statuses == {"pending", "rejected", "pr_open", "approved"}

NoApproval == [pc |-> "idle", res |-> None, dry |-> FALSE, pr |-> 0]

NoRun == [pc |-> "idle", todo |-> {}, ask |-> None, answer |-> None, staged |-> {}]

Init ==
    /\ base \in Bases
    /\ \E v \in [{Default, base} -> Versions] :
          /\ declared = [x \in {Default, base} |-> v[x].blocks]
          /\ refs = [x \in {Default, base} |-> v[x].refs]
    /\ branches = {} /\ prs = <<>>
    /\ rec = [r \in Resources |-> "pending"] /\ url = [r \in Resources |-> 0]
    /\ at = [w \in Workers |-> NoApproval]
    /\ sync = NoRun
    /\ api = {} /\ blind = {} /\ late = {} /\ reopened = {} /\ overtaken = {}
    /\ approvals = 0 /\ faults = 0 /\ moves = 0

Fault == faults < MaxFaults /\ faults' = faults + 1 /\ UNCHANGED <<approvals, moves>>

Goes(w, pc) == at' = [at EXCEPT ![w].pc = pc]

Ends(w) == at' = [at EXCEPT ![w] = NoApproval]

\* The job holds the lock of every row it updated until it commits.
Locked(r) == \E u \in sync.staged : u.res = r

-----------------------------------------------------------------------------
(* An approval.                                                            *)

\* The row is read whatever its status; dry_run is read once.
Approve(w, r, dry) ==
    /\ at[w].pc = "idle" /\ approvals < MaxApprovals
    /\ at' = [at EXCEPT ![w] = [NoApproval EXCEPT !.pc = "route", !.res = r, !.dry = dry]]
    /\ approvals' = approvals + 1
    /\ UNCHANGED <<github, rows, sync, route, overtaken, faults, moves>>

\* requires_pr; a policy that cannot be read requires nothing.
Route(w) ==
    LET r == at[w].res
    IN  /\ at[w].pc = "route"
        /\ \/ /\ Goes(w, IF r \in Routed THEN "prepare" ELSE "api")
              /\ UNCHANGED <<blind, bounds>>
           \/ Fault /\ Goes(w, "api") /\ blind' = blind \cup {r}
        /\ UNCHANGED <<github, rows, sync, api, overtaken>>

\* gh repo clone, without a branch: the default one, whatever base_branch names.
Cloned == Default

\* In the state, in the root module, and found in the files of the clone.
Editable(b) == b \in Root \cap declared[Cloned]

\* find_references: a line of another block of the clone names the resource.
Referenced(b) == b \in refs[Cloned]

\* Mutant: references are left for the reviewer of the pull request to see.
PrepareUnchecked(w) ==
    LET r == at[w].res
    IN  /\ at[w].pc = "prepare"
        /\ IF ~Editable(Declares[r]) THEN Goes(w, "api")
           ELSE IF at[w].dry THEN Ends(w) ELSE Goes(w, "push")
        /\ UNCHANGED <<github, rows, sync, route, overtaken, bounds>>

\* Mutant: what the editor refuses goes the direct way.
PrepareFallsBack(w) ==
    LET r == at[w].res
        b == Declares[r]
    IN  /\ at[w].pc = "prepare"
        /\ IF ~Editable(b) \/ Referenced(b) THEN Goes(w, "api")
           ELSE IF at[w].dry THEN Ends(w) ELSE Goes(w, "push")
        /\ UNCHANGED <<github, rows, sync, route, overtaken, bounds>>

\* The clone fails, the state cannot be read, or terraform validate refuses the
\* result or does not answer in time.
Unprepared(w) == Fault /\ Ends(w)

\* _clone, locate, find_references, remove_block, validate: all on the clone.  What
\* Terraform does not manage, or the mapper cannot locate, goes the direct way;
\* references and what cannot be prepared end in an error.
Prepare(w) ==
    LET r == at[w].res
        b == Declares[r]
    IN  /\ at[w].pc = "prepare"
        /\ \/ ~Editable(b) /\ Goes(w, "api") /\ UNCHANGED bounds
           \/ Editable(b) /\ (Referenced(b) \/ at[w].dry) /\ Ends(w) /\ UNCHANGED bounds
           \/ Editable(b) /\ ~Referenced(b) /\ ~at[w].dry /\ Goes(w, "push")
              /\ UNCHANGED bounds
           \/ Unprepared(w)
        /\ UNCHANGED <<github, rows, sync, route, overtaken>>

\* Mutant: every attempt has a branch of its own.
BranchOfAttempt(w) == <<at[w].res, w, Len(prs)>>

\* The branch is named after the resource.
Branch(w) == <<at[w].res>>

\* git push of a new clone is rejected when the branch is there already; a push
\* that times out may have taken place.
Push(w) ==
    /\ at[w].pc = "push"
    /\ \/ /\ Branch(w) \notin branches
          /\ branches' = branches \cup {Branch(w)}
          /\ Goes(w, "create") /\ UNCHANGED bounds
       \/ Branch(w) \in branches /\ Ends(w) /\ UNCHANGED <<branches, bounds>>
       \/ Fault /\ Ends(w) /\ branches' \in {branches, branches \cup {Branch(w)}}
    /\ UNCHANGED <<base, declared, refs, prs, late, reopened, rows, sync, route, overtaken>>

OpenOn(head) == \E n \in DOMAIN prs : prs[n].head = head /\ prs[n].state = "open"

\* A pull request removes the block, whatever the recommendation asks for.
NewPr(w) == [res |-> at[w].res, head |-> Branch(w), block |-> Declares[at[w].res],
             edit |-> "remove", state |-> "open"]

\* gh pr create needs the branch and no open pull request on it; when it times out
\* the pull request may be there, and nobody recorded it.
CreatePr(w) ==
    LET opened == Append(prs, NewPr(w))
        possible == Branch(w) \in branches /\ ~OpenOn(Branch(w))
    IN  /\ at[w].pc = "create"
        /\ \/ /\ possible /\ prs' = opened
              /\ at' = [at EXCEPT ![w].pc = "record", ![w].pr = Len(opened)]
              /\ UNCHANGED bounds
           \/ ~possible /\ Ends(w) /\ UNCHANGED <<prs, bounds>>
           \/ Fault /\ Ends(w) /\ prs' \in {prs} \cup {p \in {opened} : possible}
        /\ UNCHANGED <<base, declared, refs, branches, late, reopened, rows, sync, route,
                       overtaken>>

\* The row becomes pr_open, whatever it was, and the request commits; or its
\* transaction is lost and the pull request stays unknown.
Record(w) ==
    LET r == at[w].res
    IN  /\ at[w].pc = "record" /\ Ends(w)
        /\ \/ /\ ~Locked(r)
              /\ rec' = [rec EXCEPT ![r] = "pr_open"]
              /\ url' = [url EXCEPT ![r] = at[w].pr]
              /\ overtaken' = IF sync.pc = "idle" THEN overtaken ELSE overtaken \cup {r}
              /\ UNCHANGED bounds
           \/ Fault /\ UNCHANGED <<rows, overtaken>>
        /\ UNCHANGED <<github, sync, route>>

\* The direct route, in one step: executed, or refused, or a dry run.
Direct(w) ==
    LET r == at[w].res
    IN  /\ at[w].pc = "api" /\ Ends(w)
        /\ \/ /\ ~at[w].dry /\ ~Locked(r)
              /\ api' = api \cup {r} /\ rec' = [rec EXCEPT ![r] = "approved"]
           \/ UNCHANGED <<api, rec>>
        /\ UNCHANGED <<github, url, sync, blind, overtaken, bounds>>

Approval(w) == Route(w) \/ Prepare(w) \/ Push(w) \/ CreatePr(w) \/ Record(w) \/ Direct(w)

-----------------------------------------------------------------------------
(* terraform_pr_sync_job: one run at a time, one transaction.              *)

SyncRead ==
    /\ sync.pc = "idle"
    /\ \E r \in Resources : rec[r] = "pr_open" /\ url[r] # 0
    /\ sync' = [NoRun EXCEPT !.pc = "next",
                  !.todo = {[res |-> r, pr |-> url[r]] :
                              r \in {q \in Resources : rec[q] = "pr_open" /\ url[q] # 0}}]
    /\ UNCHANGED <<github, rows, at, route, overtaken, bounds>>

\* Mutant: whatever is no longer open was merged.
AnswerDone(state) == IF state = "open" THEN None ELSE "approved"

\* MERGED means approved, CLOSED means rejected, OPEN means nothing yet.
Answer(state) ==
    CASE state = "merged" -> "approved"
      [] state = "closed" -> "rejected"
      [] OTHER -> None

\* gh pr view; an error leaves the row for the next run.
SyncAsk ==
    /\ sync.pc = "next"
    /\ \E t \in sync.todo :
          \/ /\ sync' = [sync EXCEPT !.todo = @ \ {t},
                           !.pc = IF Answer(prs[t.pr].state) = None THEN "next"
                                  ELSE "update",
                           !.ask = t, !.answer = Answer(prs[t.pr].state)]
             /\ UNCHANGED bounds
          \/ Fault /\ sync' = [sync EXCEPT !.todo = @ \ {t}]
    /\ UNCHANGED <<github, rows, at, route, overtaken>>

\* The UPDATE is conditioned on the status, not on the url it asked about.
SyncUpdate ==
    LET r == sync.ask.res
    IN  /\ sync.pc = "update"
        /\ sync' = [sync EXCEPT !.pc = "next", !.ask = None, !.answer = None,
                      !.staged = IF rec[r] = "pr_open"
                                 THEN @ \cup {[res |-> r, status |-> sync.answer]}
                                 ELSE @]
        /\ UNCHANGED <<github, rows, at, route, overtaken, bounds>>

\* Mutant: the connection is closed without a commit.
SyncCommitForgotten ==
    /\ sync.pc = "next" /\ sync.todo = {} /\ sync' = NoRun
    /\ UNCHANGED <<github, rows, at, route, overtaken, bounds>>

SyncCommit ==
    /\ sync.pc = "next" /\ sync.todo = {} /\ sync' = NoRun
    /\ \/ /\ rec' = [r \in Resources |->
                       IF Locked(r)
                       THEN (CHOOSE u \in sync.staged : u.res = r).status ELSE rec[r]]
          /\ UNCHANGED bounds
       \/ Fault /\ UNCHANGED rec
    /\ UNCHANGED <<github, url, at, route, overtaken>>

Follow == SyncRead \/ SyncAsk \/ SyncUpdate \/ SyncCommit

-----------------------------------------------------------------------------
(* People.                                                                 *)

Moves == moves < MaxMoves /\ moves' = moves + 1 /\ UNCHANGED <<approvals, faults>>

\* A pull request cut from the default branch and merged into another one brings
\* along what else the two differ by, or does not: it depends on their history.
Crossed(b) ==
    LET both == declared[Default] \cap declared[base]
        any == declared[Default] \cup declared[base]
    IN  {v \in [blocks : SUBSET (any \ {b}), refs : SUBSET any] :
            both \ {b} \subseteq v.blocks}

Merge(n) ==
    /\ Moves /\ prs[n].state = "open"
    /\ prs' = [prs EXCEPT ![n].state = "merged"]
    /\ IF base = Default
       THEN declared' = [declared EXCEPT ![base] = @ \ {prs[n].block}] /\ UNCHANGED refs
       ELSE \E v \in Crossed(prs[n].block) :
              /\ declared' = [declared EXCEPT ![base] = v.blocks]
              /\ refs' = [refs EXCEPT ![base] = v.refs]
    /\ UNCHANGED <<base, branches, late, reopened, rows, at, sync, route, overtaken>>

Close(n) ==
    /\ Moves /\ prs[n].state = "open"
    /\ prs' = [prs EXCEPT ![n].state = "closed"]
    /\ UNCHANGED <<base, declared, refs, branches, late, reopened, rows, at, sync, route,
                   overtaken>>

\* GitHub reopens a pull request whose branch is there and has no other open one.
Reopen(n) ==
    /\ Moves /\ prs[n].state = "closed"
    /\ prs[n].head \in branches /\ ~OpenOn(prs[n].head)
    /\ prs' = [prs EXCEPT ![n].state = "open"]
    /\ reopened' = reopened \cup {n}
    /\ UNCHANGED <<base, declared, refs, branches, late, rows, at, sync, route, overtaken>>

\* The pull request open on a branch is closed with it.
DeleteBranch(head) ==
    /\ Moves /\ branches' = branches \ {head}
    /\ prs' = [n \in DOMAIN prs |->
                 IF prs[n].head = head /\ prs[n].state = "open"
                 THEN [prs[n] EXCEPT !.state = "closed"] ELSE prs[n]]
    /\ UNCHANGED <<base, declared, refs, late, reopened, rows, at, sync, route,
                   overtaken>>

\* The removal of a block is cut from a clone and not merged.
UnderWay(b) ==
    \/ \E w \in Workers : at[w].pc \in {"push", "create"} /\ Declares[at[w].res] = b
    \/ \E n \in DOMAIN prs : prs[n].block = b /\ prs[n].state # "merged"

\* Somebody commits to a branch: a reference more, or one less.
EditCode(x, b) ==
    /\ Moves /\ b \in declared[x]
    /\ \/ /\ b \notin refs[x] /\ refs' = [refs EXCEPT ![x] = @ \cup {b}]
          /\ late' = IF UnderWay(b) THEN late \cup {b} ELSE late
       \/ b \in refs[x] /\ refs' = [refs EXCEPT ![x] = @ \ {b}] /\ UNCHANGED late
    /\ UNCHANGED <<base, declared, branches, prs, reopened, rows, at, sync, route, overtaken>>

\* The skip and restore buttons.
Skip(r) ==
    /\ Moves /\ ~Locked(r)
    /\ \/ rec[r] = "pending" /\ rec' = [rec EXCEPT ![r] = "rejected"]
       \/ rec[r] = "rejected" /\ rec' = [rec EXCEPT ![r] = "pending"]
    /\ UNCHANGED <<github, url, at, sync, route, overtaken>>

People ==
    \/ \E n \in DOMAIN prs : Merge(n) \/ Close(n) \/ Reopen(n)
    \/ \E head \in branches : DeleteBranch(head)
    \/ \E x \in {Default, base}, b \in Blocks : EditCode(x, b)
    \/ \E r \in Resources : Skip(r)

Next ==
    \/ \E w \in Workers, r \in Resources, dry \in BOOLEAN : Approve(w, r, dry)
    \/ \E w \in Workers : Approval(w)
    \/ Follow
    \/ People

\* A request goes on, and the scheduler runs the job every five minutes.
Spec ==
    /\ Init /\ [][Next]_vars
    /\ WF_vars(Follow)
    /\ \A w \in Workers : WF_vars(Approval(w))

-----------------------------------------------------------------------------
(* Properties.                                                             *)

\* Every variable has its type.
TypeOK ==
    /\ base \in Bases /\ late \subseteq Blocks
    /\ declared \in [{Default, base} -> SUBSET Blocks]
    /\ refs \in [{Default, base} -> SUBSET Blocks]
    /\ \A n \in DOMAIN prs : prs[n].state \in {"open", "closed", "merged"}
    /\ rec \in [Resources -> Statuses] /\ url \in [Resources -> 0..Len(prs)]
    /\ \A w \in Workers :
          at[w].pc \in {"idle", "route", "prepare", "push", "create", "record", "api"}
    /\ sync.pc \in {"idle", "next", "update"}
    /\ \A u \in sync.staged : u.res \in Resources /\ u.status \in {"approved", "rejected"}
    /\ api \subseteq Resources /\ blind \subseteq Resources

\* A resource never has two pull requests open, however many threads approve it
\* at once and whatever was retried: the name of the branch stands for a lock.
OneOpenPr ==
    \A m, n \in DOMAIN prs :
        (prs[m].res = prs[n].res /\ prs[m].state = "open" /\ prs[n].state = "open")
            => m = n

\* Where pull requests are opened against the branch that is cloned, code left
\* without a block it refers to was written after the removal of the block was cut:
\* find_references ran on what everybody had committed by then.  With another
\* base_branch it runs on other code than the pull request is merged into.
DanglingIsLate == base = Default => \A b \in refs[base] \ declared[base] : b \in late

\* What Terraform manages and the policy wants reviewed is not removed directly,
\* whatever fails on the way to its pull request; only a policy that cannot be
\* read opens the direct way ("do NOT silently fall back to the API path"), or a
\* default branch that does not declare it, whatever the base branch declares.
ManagedByPrOnly ==
    \A r \in api \cap Routed :
        Declares[r] \in Root => r \in blind \/ Declares[r] \notin declared[Default]

\* A recommendation that did not go the direct way is approved only if a pull
\* request of its resource was merged, and one the job rejected has its pull
\* request closed, unless it was reopened or replaced while the job was at work.
StatusFollowsPr ==
    \A r \in Resources :
        /\ (rec[r] = "approved" /\ r \notin api) =>
              \E n \in DOMAIN prs : prs[n].res = r /\ prs[n].state = "merged"
        /\ (rec[r] = "rejected" /\ url[r] # 0) =>
              \/ prs[url[r]].state = "closed"
              \/ url[r] \in reopened \/ r \in overtaken

MergedAndOpen(r) ==
    rec[r] = "pr_open" /\ url[r] # 0 /\ prs[url[r]].state = "merged"

\* A recommendation whose pull request was merged does not stay open, although
\* any question to GitHub and any commit may fail a number of times.
MergedIsApproved == \A r \in Resources : MergedAndOpen(r) ~> ~MergedAndOpen(r)

\* What a pull request does to the code is what the recommendation asked for:
\* terraform_editor.py says that a volume to migrate is edited in place.
PrKeepsItsWord == \A n \in DOMAIN prs : prs[n].edit = Wanted[prs[n].res]
==============================================================================
