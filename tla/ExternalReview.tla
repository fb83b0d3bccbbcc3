-------------------------- MODULE ExternalReview --------------------------
(***************************************************************************)
(* tools/external_review.py: an evidence pack is written for a reviewer    *)
(* outside the workspace, sealed, checked, and the answer recorded.  The   *)
(* pack lies on a disk that others write to, between the seal, the reading *)
(* and the record.                                                         *)
(***************************************************************************)
EXTENDS Naturals, Sequences

CONSTANTS
    REVIEW_DAYS,     \* EXTERNAL_REVIEW_DAYS
    LastDay,         \* bound: the days are 1..LastDay
    MaxTampers,      \* bound: writes of others into a pack
    NoPack, NoSeal, NoAnswer, NoReview

ASSUME ExternalReviewAssumption ==
    REVIEW_DAYS \in Nat \ {0} /\ LastDay \in Nat \ {0} /\ MaxTampers \in Nat

\* In the order they are written; what leaks is looked for before the manifest.
PackOrder == <<"01-repos.md", "code", "00-manifest.md">>
PackNames == {PackOrder[i] : i \in 1..Len(PackOrder)} \cup {"smuggled"}
Content   == {"none", "packed", "other", "link"}
ReviewDays == 1..LastDay
PackContents     == [PackNames -> Content]
EmptyPack     == [f \in PackNames |-> "none"]
Seals         == [entries : PackContents, hash : PackContents]
Packed        == [files : PackContents, seal : {NoSeal} \cup Seals]

ASSUME NoPackAssumption == NoPack \notin Packed

VARIABLES
    packs,         \* by day: the files and the seal of _lens/<day>, or NoPack
    packer,        \* the step of today's packing, 0 when none runs
    reviewAnswer,  \* the day of the pack the reviewer has answered on, or NoAnswer
    reports,       \* by day: _reports/external-review-<day>.md
    reviewDay,     \* today
    due,           \* the verdict _lens/DUE.md holds
    tampers

reviewVars == <<packs, packer, reviewAnswer, reports, reviewDay, due, tampers>>

PackFiles(files) == [f \in PackNames |-> IF files[f] = "link" THEN "none" ELSE files[f]]
\* The entries and the digest are two fields; a link to a directory is in no seal.
WrittenSeal(files) == [entries |-> PackFiles(files), hash |-> PackFiles(files)]
VerifyPack(pack) ==
    IF pack = NoPack THEN "unsealed"
    ELSE IF pack.seal = NoSeal THEN "unsealed"
    ELSE IF pack.seal.entries = pack.files /\ pack.seal.hash = pack.files THEN "ok" ELSE "drift"

-----------------------------------------------------------------------------
PackStart ==
    /\ packer = 0 /\ packs[reviewDay] = NoPack
    /\ packer' = 1
    /\ packs' = [packs EXCEPT ![reviewDay] = [files |-> EmptyPack, seal |-> NoSeal]]
    /\ UNCHANGED <<reviewAnswer, reports, reviewDay, due, tampers>>

Voided == packs' = [packs EXCEPT ![reviewDay] = NoPack] /\ packer' = 0

PackWrite ==
    /\ packer \in 1..Len(PackOrder)
    /\ \E outcome \in {"written", "failed", "leaks"} :
          /\ outcome = "leaks" => PackOrder[packer] = "00-manifest.md"
          /\ IF outcome # "written" THEN Voided
             ELSE /\ packs' = [packs EXCEPT ![reviewDay].files[PackOrder[packer]] = "packed"]
                  /\ packer' = packer + 1
    /\ UNCHANGED <<reviewAnswer, reports, reviewDay, due, tampers>>

WriteSeal ==
    /\ packer = Len(PackOrder) + 1
    /\ \/ Voided
       \/ /\ packs' = [packs EXCEPT ![reviewDay].seal = WrittenSeal(packs[reviewDay].files)]
          /\ packer' = 0
    /\ UNCHANGED <<reviewAnswer, reports, reviewDay, due, tampers>>

\* Only an exception cleans up: a kill leaves a pack that has no seal.
PackKilled ==
    /\ packer # 0 /\ packer' = 0
    /\ UNCHANGED <<packs, reviewAnswer, reports, reviewDay, due, tampers>>

-----------------------------------------------------------------------------
\* Someone writes to a pack: a file of it, one that is not, or the seal's entries.
Tamper ==
    /\ tampers < MaxTampers /\ tampers' = tampers + 1
    /\ \E day \in {d \in ReviewDays : packs[d] # NoPack} :
          \/ \E f \in PackNames, c \in Content \ {"packed"} : packs' = [packs EXCEPT ![day].files[f] = c]
          \/ /\ packs[day].seal # NoSeal
             /\ packs' = [packs EXCEPT ![day].seal.entries = PackFiles(packs[day].files)]
          \/ /\ packer = 0 \/ day # reviewDay
             /\ packs' = [packs EXCEPT ![day] = NoPack]
    /\ UNCHANGED <<packer, reviewAnswer, reports, reviewDay, due>>

Review ==
    /\ \E day \in {d \in ReviewDays : packs[d] # NoPack} : reviewAnswer' = day
    /\ UNCHANGED <<packs, packer, reports, reviewDay, due, tampers>>

(* The pack is the one named or, by default, today's, whichever the answer  *)
(* is about; a second record of a day replaces the first.                   *)
Record(named, allowUnsealed) ==
    /\ reviewAnswer # NoAnswer
    /\ named # reviewDay => packs[named] # NoPack
    /\ \/ VerifyPack(packs[named]) = "ok"
       \/ VerifyPack(packs[named]) = "unsealed" /\ allowUnsealed
    /\ reports' = [reports EXCEPT ![reviewDay] =
          [of |-> reviewAnswer, pack |-> named, stamped |-> VerifyPack(packs[named]) = "ok"]]
    /\ UNCHANGED <<packs, packer, reviewAnswer, reviewDay, due, tampers>>

Reported == {d \in ReviewDays : reports[d] # NoReview}
LastReview == IF Reported = {} THEN 0 ELSE CHOOSE d \in Reported : \A c \in Reported : c <= d
CycleDaysLeft(day) == REVIEW_DAYS + LastReview - day
LegacyNote == Reported # {} /\ ~reports[LastReview].stamped

Status ==
    /\ due' = [overdue |-> LastReview = 0 \/ CycleDaysLeft(reviewDay) <= 0, note |-> LegacyNote]
    /\ UNCHANGED <<packs, packer, reviewAnswer, reports, reviewDay, tampers>>

NextReviewDay ==
    /\ reviewDay < LastDay /\ packer = 0
    /\ reviewDay' = reviewDay + 1
    /\ UNCHANGED <<packs, packer, reviewAnswer, reports, due, tampers>>

-----------------------------------------------------------------------------
ReviewInit ==
    /\ packs = [d \in ReviewDays |-> NoPack] /\ packer = 0
    /\ reviewAnswer = NoAnswer /\ reports = [d \in ReviewDays |-> NoReview]
    /\ reviewDay = 1 /\ due = [overdue |-> FALSE, note |-> FALSE] /\ tampers = 0

ReviewNext ==
    \/ PackStart \/ PackWrite \/ WriteSeal \/ PackKilled \/ Tamper \/ Review
    \/ \E named \in ReviewDays, allowUnsealed \in BOOLEAN : Record(named, allowUnsealed)
    \/ Status \/ NextReviewDay

ReviewTypeOK ==
    /\ \A d \in ReviewDays :
          /\ packs[d] = NoPack \/ packs[d] \in Packed
          /\ reports[d] = NoReview \/ reports[d] \in [of : ReviewDays, pack : ReviewDays, stamped : BOOLEAN]
    /\ packer \in 0..Len(PackOrder) + 1 /\ reviewDay \in ReviewDays /\ tampers \in 0..MaxTampers
    /\ reviewAnswer = NoAnswer \/ reviewAnswer \in ReviewDays
    /\ due \in [overdue : BOOLEAN, note : BOOLEAN]
=============================================================================
