----------------------------- MODULE SiblingLinks -----------------------------
(***************************************************************************)
(* link-npm-siblings (npm/link_siblings.py): an overlay of symlinks to     *)
(* sibling checkouts over what pnpm installed, and --remove, which takes   *)
(* it back with the help of a state file.  Worktrees share one node_modules *)
(* by a symlink, and with it the state file, whose keys carry the worktree. *)
(* A dry run writes nothing and is not modelled.                           *)
(***************************************************************************)
EXTENDS Naturals, FiniteSets

CONSTANTS
    Worktrees,
    Deps,              \* the declared dependencies a location in node_modules each
    RegistryVersions,  \* what pnpm may install for a dependency
    Checkouts,         \* sibling checkouts that may provide one
    Nothing,           \* no file, no checkout, no original
    Directory,         \* a real directory
    NoEntry,           \* the state file has no entry
    MaxLinkRuns        \* bound: how many commands are run

Targets == RegistryVersions \cup Checkouts
Files   == Targets \cup {Nothing, Directory}
Recorded == [original : Targets \cup {Nothing}, was_dir : BOOLEAN]
Keys    == Worktrees \X Deps
LinkStates == [Keys -> Recorded \cup {NoEntry}]

ASSUME SiblingLinksAssumption ==
    /\ MaxLinkRuns \in Nat
    /\ RegistryVersions \cap Checkouts = {} /\ {Nothing, Directory} \cap Targets = {}
    /\ NoEntry \notin Recorded

VARIABLES
    placed,     \* node_modules/<dep>
    sibling,    \* the checkout that provides a dependency
    state,      \* .celestia-linked-siblings.json
    linking,    \* per worktree: the dependencies a run has still to link, or idle
    links,      \* the state that run loaded, and has changed
    forced,     \* was it run with --force
    dirty,      \* has it changed a link
    linkRuns

linkVars == <<placed, sibling, state, linking, links, forced, dirty, linkRuns>>

SiblingLinksTypeOK ==
    /\ placed \in [Deps -> Files]
    /\ sibling \in [Deps -> Checkouts \cup {Nothing}]
    /\ state \in LinkStates
    /\ linking \in [Worktrees -> SUBSET Deps]
    /\ links \in [Worktrees -> LinkStates]
    /\ forced \in [Worktrees -> BOOLEAN] /\ dirty \in [Worktrees -> BOOLEAN]
    /\ linkRuns \in 0..MaxLinkRuns

NoLinks == [k \in Keys |-> NoEntry]

-----------------------------------------------------------------------------
\* pnpm install puts every dependency back to the registry's.
InstallSiblings(v) ==
    /\ linkRuns < MaxLinkRuns /\ linkRuns' = linkRuns + 1
    /\ placed' = [d \in Deps |-> v]
    /\ UNCHANGED <<sibling, state, linking, links, forced, dirty>>

\* A checkout moves, or goes; a package is unpacked by hand.
MoveCheckout(d) ==
    /\ linkRuns < MaxLinkRuns /\ linkRuns' = linkRuns + 1
    /\ \E c \in (Checkouts \cup {Nothing}) \ {sibling[d]} :
          sibling' = [sibling EXCEPT ![d] = c]
    /\ UNCHANGED <<placed, state, linking, links, forced, dirty>>

Unpack(d) ==
    /\ linkRuns < MaxLinkRuns /\ linkRuns' = linkRuns + 1
    /\ placed' = [placed EXCEPT ![d] = Directory]
    /\ UNCHANGED <<sibling, state, linking, links, forced, dirty>>

-----------------------------------------------------------------------------
(* main, without --remove: load_state, apply_link of every plan, save_state. *)

\* plan_links: a dependency no checkout provides stays on the registry.
PlannedLinks == {d \in Deps : sibling[d] # Nothing}

StartOverlay(w, force) ==
    /\ linking[w] = {}
    /\ linkRuns < MaxLinkRuns /\ linkRuns' = linkRuns + 1
    /\ PlannedLinks # {}
    /\ linking' = [linking EXCEPT ![w] = PlannedLinks]
    /\ links' = [links EXCEPT ![w] = state]
    /\ forced' = [forced EXCEPT ![w] = force]
    /\ dirty' = [dirty EXCEPT ![w] = FALSE]
    /\ UNCHANGED <<placed, sibling, state>>

Entry(w, d) == IF links[w][<<w, d>>] = NoEntry
               THEN [original |-> Nothing, was_dir |-> FALSE] ELSE links[w][<<w, d>>]

\* What apply_link records: the first target seen that was not ours to replace.
Replaces(w, d) ==
    CASE placed[d] \in Targets ->
             [original |-> IF Entry(w, d).original = Nothing THEN placed[d]
                           ELSE Entry(w, d).original,
              was_dir  |-> FALSE]
      [] placed[d] = Directory -> [original |-> Nothing, was_dir |-> TRUE]
      [] OTHER                 -> [original |-> Nothing, was_dir |-> FALSE]

Records(w, d, e) == links' = [links EXCEPT ![w][<<w, d>>] = e]

\* The last plan of a run that changed a link is followed by save_state.
Applied(w, d, changes) ==
    /\ linking' = [linking EXCEPT ![w] = @ \ {d}]
    /\ LET changed == dirty[w] \/ changes
           last == linking[w] = {d}
       IN  /\ dirty' = [dirty EXCEPT ![w] = changed /\ ~last]
           /\ state' = IF last /\ changed THEN links'[w] ELSE state

apply_link(w, d) ==
    /\ d \in linking[w]
    /\ \/ /\ placed[d] = sibling[d]                          \* ok
          /\ Records(w, d, Entry(w, d))
          /\ Applied(w, d, FALSE)
          /\ UNCHANGED placed
       \/ /\ placed[d] = Directory /\ ~forced[w]             \* skipped-dir
          /\ Applied(w, d, FALSE)
          /\ UNCHANGED <<placed, links>>
       \/ /\ placed[d] # sibling[d] /\ (placed[d] = Directory => forced[w])
          /\ Records(w, d, Replaces(w, d))
          /\ placed' = [placed EXCEPT ![d] = sibling[d]]
          /\ Applied(w, d, TRUE)
    /\ UNCHANGED <<sibling, forced, linkRuns>>

\* Killed, before a link or between _remove_path and os.symlink; nothing is saved.
OverlayKilled(w) ==
    /\ linking[w] # {}
    /\ linking' = [linking EXCEPT ![w] = {}]
    /\ dirty' = [dirty EXCEPT ![w] = FALSE]
    /\ \/ UNCHANGED placed
       \/ \E d \in linking[w] : /\ placed[d] # sibling[d] /\ (placed[d] = Directory => forced[w])
                                /\ placed' = [placed EXCEPT ![d] = Nothing]
    /\ UNCHANGED <<sibling, state, links, forced, linkRuns>>

-----------------------------------------------------------------------------
(* remove_links *)

Own(w) == {d \in Deps : state[<<w, d>>] # NoEntry}

Restored(w, d) == IF placed[d] \in Targets THEN state[<<w, d>>].original ELSE placed[d]

\* It works through the entries of its worktree; killed before the end it saves nothing.
RemoveLinks(w) ==
    /\ linking[w] = {}
    /\ linkRuns < MaxLinkRuns /\ linkRuns' = linkRuns + 1
    /\ Own(w) # {}
    /\ \E done \in SUBSET Own(w) :
          /\ placed' = [d \in Deps |-> IF d \in done THEN Restored(w, d) ELSE placed[d]]
          /\ state' = [k \in Keys |-> IF done = Own(w) /\ k[1] = w THEN NoEntry ELSE state[k]]
    /\ UNCHANGED <<sibling, linking, links, forced, dirty>>

-----------------------------------------------------------------------------
SiblingLinksInit ==
    /\ placed = [d \in Deps |-> Nothing]
    /\ sibling = [d \in Deps |-> CHOOSE c \in Checkouts : TRUE]
    /\ state = NoLinks
    /\ linking = [w \in Worktrees |-> {}]
    /\ links = [w \in Worktrees |-> NoLinks]
    /\ forced = [w \in Worktrees |-> FALSE] /\ dirty = [w \in Worktrees |-> FALSE]
    /\ linkRuns = 0

SiblingLinksNext ==
    \/ \E v \in RegistryVersions : InstallSiblings(v)
    \/ \E d \in Deps : MoveCheckout(d) \/ Unpack(d)
    \/ \E w \in Worktrees :
          \/ \E force \in BOOLEAN : StartOverlay(w, force)
          \/ \E d \in Deps : apply_link(w, d)
          \/ OverlayKilled(w)
          \/ RemoveLinks(w)

SiblingLinksSpec == SiblingLinksInit /\ [][SiblingLinksNext]_linkVars
=============================================================================
