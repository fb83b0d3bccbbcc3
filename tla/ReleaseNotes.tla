--------------------------- MODULE ReleaseNotes ---------------------------
(***************************************************************************)
(* release-notes (publish/release_notes.py): the notes of a tag are the    *)
(* pull requests of the commits from it back to the tag before, fetched    *)
(* page by page from a repository that people go on writing to, and then   *)
(* written to the release of the tag, which is made when there is none.    *)
(***************************************************************************)
EXTENDS Naturals, FiniteSets

CONSTANTS
    PAGE,            \* commits of a page (100)
    MaxHistory,      \* bound: commits of the branch
    MaxNotesEdits,   \* bound: pushes, tags and edits of releases
    MaxNotesRuns,    \* bound: runs of the tool
    NoRelease

ASSUME ReleaseNotesAssumption == PAGE \in Nat \ {0} /\ MaxHistory \in Nat /\ MaxHistory >= 3

Releases == 1..2
Commits  == 1..MaxHistory        \* oldest first; each is one squashed pull request
Release_ == [draft : BOOLEAN, target : BOOLEAN, body : SUBSET Commits]

VARIABLES
    tip,             \* the head of the branch
    direct,          \* commits whose subject ends in no (#N)
    tagged,          \* by version: the commit of its tag, 0 for none
    releases,        \* by version: the release object
    notes,           \* the run under way, or how the last one ended
    notesEdits, notesRuns

notesVars == <<tip, direct, tagged, releases, notes, notesEdits, notesRuns>>
\* start is history: where the branch was when the run began.
NoNotes == [on |-> "idle", tag |-> 1, base |-> 0, head |-> 0, page |-> 1, found |-> FALSE,
            listed |-> {}, apply |-> FALSE, publish |-> FALSE, draft |-> FALSE, start |-> 0]

\* The highest tag below, whichever commit it is on.
ResolvePreviousTag(v) ==
    LET below == {u \in Releases : u < v /\ tagged[u] # 0}
    IN  IF below = {} THEN 0 ELSE CHOOSE u \in below : \A w \in below : w <= u

(* The head is the commit of the tag or, when the tag is lost, what the     *)
(* release says it targets: a branch, here 0.                               *)
StartNotes(v, previous, apply, publish) ==
    /\ notes.on # "walk" /\ notes.on # "write" /\ notesRuns < MaxNotesRuns
    /\ notesRuns' = notesRuns + 1
    /\ LET base == IF previous = 0 THEN 0 ELSE tagged[previous]
           lost == tagged[v] = 0
       IN  IF lost /\ (releases[v] # NoRelease => ~releases[v].target)
           THEN notes' = [NoNotes EXCEPT !.on = "error"]
           ELSE notes' = [NoNotes EXCEPT !.on = "walk", !.tag = v, !.base = base, !.head = tagged[v],
                                         !.found = base = 0, !.apply = apply, !.publish = publish,
                                         !.start = tip]
    /\ UNCHANGED <<tip, direct, tagged, releases, notesEdits>>

\* The n-th page back from a commit, as far as the history goes.
PageOf(from, n) == {c \in Commits : c <= from - (n - 1) * PAGE /\ c > from - n * PAGE}
\* Of a page, what is read before the base is met.
AboveBase(page, base) == {c \in page : c > base \/ base \notin page}
BaseFound(page) == notes.found \/ notes.base \in page
EndsWalk(page) == BaseFound(page) \/ Cardinality(page) < PAGE

WalkPage ==
    /\ notes.on = "walk"
    /\ LET from  == IF notes.head = 0 THEN tip ELSE notes.head
           page  == PageOf(from, notes.page)
       IN  notes' = [notes EXCEPT
              !.listed = @ \cup (AboveBase(page, notes.base) \ direct),
              !.found  = BaseFound(page),
              !.page   = @ + 1,
              !.draft  = releases[notes.tag] = NoRelease,
              !.on     = IF ~EndsWalk(page) THEN "walk"
                         ELSE IF ~BaseFound(page) THEN "error"
                         ELSE IF notes.apply THEN "write" ELSE "done"]
    /\ UNCHANGED <<tip, direct, tagged, releases, notesEdits, notesRuns>>

\* Found before, written after: what came in between makes the POST fail, or the PATCH.
UpsertRelease ==
    /\ notes.on = "write"
    /\ \/ /\ notes.draft /\ releases[notes.tag] = NoRelease
          /\ releases' = [releases EXCEPT ![notes.tag] =
                [draft |-> ~notes.publish, target |-> tagged[notes.tag] = 0, body |-> notes.listed]]
          /\ notes' = [notes EXCEPT !.on = "done"]
       \/ /\ ~notes.draft /\ releases[notes.tag] # NoRelease
          /\ releases' = [releases EXCEPT ![notes.tag].body = notes.listed]
          /\ notes' = [notes EXCEPT !.on = "done"]
       \/ /\ notes.draft # (releases[notes.tag] = NoRelease)
          /\ notes' = [notes EXCEPT !.on = "error"] /\ UNCHANGED releases
    /\ UNCHANGED <<tip, direct, tagged, notesEdits, notesRuns>>

\* Any request may fail, and ends the run with nothing written.
NotesFail ==
    /\ notes.on \in {"walk", "write"}
    /\ notes' = [notes EXCEPT !.on = "error"]
    /\ UNCHANGED <<tip, direct, tagged, releases, notesEdits, notesRuns>>

-----------------------------------------------------------------------------
EditHistory ==
    /\ notesEdits < MaxNotesEdits /\ notesEdits' = notesEdits + 1
    /\ \/ /\ tip < MaxHistory /\ tip' = tip + 1
          /\ direct' \in {direct, direct \cup {tip + 1}}
          /\ UNCHANGED <<tagged, releases>>
       \/ /\ \E v \in Releases : tagged' = [tagged EXCEPT ![v] = IF @ = 0 THEN tip ELSE 0]
          /\ UNCHANGED <<tip, direct, releases>>
       \/ /\ \E v \in Releases, draft \in BOOLEAN : releases' = [releases EXCEPT ![v] =
                IF @ = NoRelease THEN [draft |-> draft, target |-> TRUE, body |-> {}] ELSE [@ EXCEPT !.draft = FALSE]]
          /\ UNCHANGED <<tip, direct, tagged>>
    /\ UNCHANGED <<notes, notesRuns>>

\* A tag may have been lost, and its release be there still.
Drafted == [draft |-> TRUE, target |-> TRUE, body |-> {}]

NotesInit ==
    /\ tip = MaxHistory - 1 /\ direct \in SUBSET (1..2)
    /\ \E t1 \in 0..2, t2 \in {0, tip} : tagged = [v \in Releases |-> IF v = 1 THEN t1 ELSE t2]
    /\ \E r \in {NoRelease, Drafted} : releases = [v \in Releases |-> IF v = 1 THEN NoRelease ELSE r]
    /\ notes = NoNotes /\ notesEdits = 0 /\ notesRuns = 0

NotesNext ==
    \/ \E v \in Releases, apply \in BOOLEAN, publish \in BOOLEAN :
          \E previous \in {0, ResolvePreviousTag(v)} \cup (Releases \ {v}) : StartNotes(v, previous, apply, publish)
    \/ WalkPage \/ UpsertRelease \/ NotesFail \/ EditHistory

NotesTypeOK ==
    /\ tip \in Commits /\ direct \subseteq Commits /\ tagged \in [Releases -> {0} \cup Commits]
    /\ \A v \in Releases : releases[v] = NoRelease \/ releases[v] \in Release_
    /\ notes.on \in {"idle", "walk", "write", "done", "error"} /\ notes.listed \subseteq Commits

(* Notes between two tags name each pull request of the commits between     *)
(* them and no other, over however many pages and while the branch moves    *)
(* on.  Those of a lost tag, read from a branch that is another at each     *)
(* page, name every one that was there when the run began, and none that    *)
(* the branch has not (collect_entries, walk_head).                         *)
NotesWhole ==
    notes.on \in {"write", "done"} /\ notes.base # 0 =>
        LET between(to) == {c \in Commits : notes.base < c /\ c <= to} \ direct
        IN  /\ notes.head # 0 => notes.listed = between(notes.head)
            /\ notes.head = 0 => /\ between(notes.start) \subseteq notes.listed
                                 /\ notes.listed \subseteq between(tip)
=============================================================================
