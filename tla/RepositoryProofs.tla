-------------------------- MODULE RepositoryProofs --------------------------
(***************************************************************************)
(* The inductive invariants of the tools that check and publish a          *)
(* repository, for every value of their constants: the layout fix and the  *)
(* search for import cycles (PyStyle), the generated callers (RepoInit),   *)
(* the radar (Radar), the publication of crates (Crates), the notes of a   *)
(* release (ReleaseNotes), and the gates that are green or blame: the open *)
(* findings and the industry's words (LedgerGates), the literals of the    *)
(* fleet (GateSweep), the versions of a family and of a project            *)
(* (VersionGates).  At the end, that each of them keeps its types.         *)
(***************************************************************************)
EXTENDS PyStyle, RepoInit, Radar, Crates, ReleaseNotes, LedgerGates, GateSweep, VersionGates
    , FiniteSetTheorems, SequenceTheorems, WellFoundedInduction, TLAPS

-----------------------------------------------------------------------------
(* py-style fix *)

StyleFields == {"step", "cmd", "flag", "config", "active", "files", "left", "read", "wrote",
                "target"}

\* The record of a command that runs.
StyleRuns ==
    /\ style = [x \in StyleFields |-> style[x]]
    /\ style.step \in {"read", "write", "approved"}
    /\ style.left \subseteq StyleFiles
    /\ style.wrote \subseteq DOMAIN style.read /\ DOMAIN style.read \subseteq StyleFiles
    /\ style.read = [f \in DOMAIN style.read |-> style.read[f]]

\* Nothing is written before all are read, and then no file twice, nor more than allowed.
WritesRationed ==
    /\ style.step = "read" => style.wrote = {} /\ style.left \cap DOMAIN style.read = {}
    /\ style.step # "read" =>
          /\ style.cmd = "fix"
          /\ style.left \subseteq DOMAIN style.read \ style.wrote
          /\ style.flag = "none" => Cardinality(DOMAIN style.read) <= MAX_FIX_FILES
          /\ style.flag = "dry-run" => style.left = {} /\ style.wrote = {}
    /\ style.step = "approved" => style.target \in style.left

\* A text that waits to be written, and whose file nobody has touched since, means the same.
WaitingSound ==
    style.cmd = "fix" =>
        /\ \A f \in DOMAIN style.read \ (overtaken \cup style.wrote) :
              /\ sources[f] # NoSource
              /\ IsText(sources[f]) => style.read[f].means = authored[f]
        /\ style.step = "approved" /\ style.target \notin overtaken => sources[style.target] # ALink

StyleInv ==
    /\ DOMAIN sources = StyleFiles /\ DOMAIN authored = StyleFiles
    /\ style # NoStyle =>
          styleVerdict.torn = {} /\ StyleRuns /\ WritesRationed /\ WaitingSound
    /\ FixKeepsMeaning

\* A command that ends in a step that writes nothing.
LEMMA EndStyleStep ==
    ASSUME StyleInv, NEW code, NEW why, EndStyle(code, why), styleVerdict.torn = {},
           why \in {"usage", "fatal", "limit", "read"} => style = NoStyle \/ style.wrote = {},
           UNCHANGED <<sources, linked, authored, overtaken>>
    PROVE  StyleInv'
BY DEF StyleInv, EndStyle, EndTearing, FixKeepsMeaning, IsText

LEMMA ReadingStep ==
    ASSUME StyleInv, NEW f, Reading("check", f) \/ Reading("fix", f)
    PROVE  /\ style # NoStyle /\ StyleRuns /\ WritesRationed /\ WaitingSound
           /\ styleVerdict.torn = {} /\ style.step = "read" /\ f \in style.left /\ f \in StyleFiles
           /\ style.wrote = {} /\ f \notin DOMAIN style.read
BY DEF StyleInv, Reading, StyleRuns, WritesRationed

LEMMA PutAsideStep ==
    ASSUME StyleInv, NEW f, PutAside(f), style # NoStyle, style.step # "approved",
           UNCHANGED <<sources, linked, authored, overtaken>>
    PROVE  StyleInv'
<1>1. /\ styleVerdict.torn = {} /\ StyleRuns /\ WritesRationed /\ WaitingSound
      /\ FixKeepsMeaning
  BY DEF StyleInv
<1>2. style' = [style EXCEPT !.left = @ \ {f}] /\ styleVerdict' = styleVerdict
  BY DEF PutAside
<1>3. /\ style'.step = style.step /\ style'.cmd = style.cmd /\ style'.flag = style.flag
      /\ style'.read = style.read /\ style'.wrote = style.wrote
      /\ style'.left = style.left \ {f}
      /\ style' = [x \in StyleFields |-> style'[x]]
  BY <1>1, <1>2 DEF StyleRuns, StyleFields
<1>4. style' # NoStyle
  BY <1>1, <1>3 DEF StyleRuns, NoStyle
<1>5. StyleRuns' /\ WritesRationed'
  BY <1>1, <1>3 DEF StyleRuns, WritesRationed
<1>6. WaitingSound'
  BY <1>1, <1>3 DEF WaitingSound, IsText
<1>7. FixKeepsMeaning'
  BY <1>1, <1>2, <1>3 DEF FixKeepsMeaning, IsText
<1>8. QED
  BY <1>1, <1>2, <1>5, <1>6, <1>7 DEF StyleInv

LEMMA StyleReadStep ==
    ASSUME PyStyleAssumption, StyleInv, NEW f, ReadForCheck(f) \/ ReadForFix(f)
    PROVE  StyleInv'
<1>0. /\ style # NoStyle /\ styleVerdict.torn = {}
      /\ StyleRuns /\ WritesRationed /\ WaitingSound
      /\ style.step = "read" /\ f \in style.left /\ f \in StyleFiles
      /\ style.wrote = {} /\ f \notin DOMAIN style.read
      /\ FixKeepsMeaning /\ DOMAIN sources = StyleFiles /\ DOMAIN authored = StyleFiles
  BY ReadingStep DEF ReadForCheck, ReadForFix, StyleInv
<1>1. UNCHANGED <<sources, linked, authored, overtaken>>
  BY DEF ReadForCheck, ReadForFix
<1>2. \/ \E why : EndStyle(2, why)
      \/ PutAside(f)
      \/ \E text : /\ style' = [style EXCEPT !.left = @ \ {f}, !.read = With(@, f, text)]
                   /\ styleVerdict' = styleVerdict
                   /\ sources[f] # NoSource
                   /\ style.cmd = "fix" /\ IsText(sources[f]) => text.means = sources[f].means
  <2>1. CASE ReadForCheck(f)
    <3>1. style.cmd = "check"
      BY <2>1 DEF ReadForCheck, Reading
    <3>2. QED
      BY <2>1, <3>1 DEF ReadForCheck
  <2>2. CASE ReadForFix(f)
    BY <2>2 DEF ReadForFix, ValidRewrite, ReadSource, IsText
  <2>3. QED
    BY <2>1, <2>2
<1>3. CASE \E why : EndStyle(2, why)
  BY <1>0, <1>1, <1>3, EndStyleStep
<1>4. CASE PutAside(f)
  BY <1>0, <1>1, <1>4, PutAsideStep
<1>5. ASSUME NEW text,
             style' = [style EXCEPT !.left = @ \ {f}, !.read = With(@, f, text)],
             styleVerdict' = styleVerdict, sources[f] # NoSource,
             style.cmd = "fix" /\ IsText(sources[f]) => text.means = sources[f].means
      PROVE  StyleInv'
  <2>1. /\ style'.step = style.step /\ style'.cmd = style.cmd /\ style'.flag = style.flag
        /\ style'.read = With(style.read, f, text) /\ style'.wrote = style.wrote
        /\ style'.left = style.left \ {f}
        /\ style' = [x \in StyleFields |-> style'[x]]
    BY <1>0, <1>5 DEF StyleRuns, StyleFields
  <2>2. /\ style'.read = [g \in DOMAIN style'.read |-> style'.read[g]]
        /\ DOMAIN style'.read = DOMAIN style.read \cup {f}
        /\ style'.read[f] = text
        /\ \A g \in DOMAIN style.read : style'.read[g] = style.read[g]
    BY <1>0, <2>1 DEF With
  <2>3. StyleRuns' /\ WritesRationed' /\ style' # NoStyle
    <3>1. StyleRuns'
      BY <1>0, <2>1, <2>2 DEF StyleRuns
    <3>2. WritesRationed'
      BY <1>0, <2>1, <2>2 DEF WritesRationed
    <3>3. style' # NoStyle
      BY <1>0, <2>1 DEF NoStyle
    <3>4. QED
      BY <3>1, <3>2, <3>3
  <2>4. WaitingSound'
    <3>1. f \notin overtaken => (IsText(sources[f]) => sources[f].means = authored[f])
      BY <1>0 DEF FixKeepsMeaning
    <3>2. QED
      BY <1>0, <1>1, <1>5, <2>1, <2>2, <3>1 DEF WaitingSound, IsText
  <2>5. FixKeepsMeaning'
    BY <1>0, <1>1, <1>5, <2>1, <2>3 DEF FixKeepsMeaning, IsText
  <2>6. QED
    BY <1>0, <1>1, <1>5, <2>3, <2>4, <2>5 DEF StyleInv
<1>6. QED
  BY <1>2, <1>3, <1>4, <1>5

LEMMA StyleWriteStep ==
    ASSUME PyStyleAssumption, StyleInv,
           AllRead \/ (\E f \in StyleFiles : ApproveWrite(f)) \/ WriteSource
    PROVE  StyleInv'
<1>0. /\ style # NoStyle /\ styleVerdict.torn = {}
      /\ StyleRuns /\ WritesRationed /\ WaitingSound
      /\ FixKeepsMeaning /\ DOMAIN sources = StyleFiles /\ DOMAIN authored = StyleFiles
  BY DEF AllRead, ApproveWrite, WriteSource, StyleInv
<1>1. CASE AllRead
  <2>1. /\ style.cmd = "fix" /\ style.step = "read" /\ style.wrote = {}
        /\ UNCHANGED <<sources, linked, authored, overtaken>>
    BY <1>0, <1>1 DEF AllRead, WritesRationed
  <2>2. CASE EndStyle(2, "limit")
    BY <1>0, <2>1, <2>2, EndStyleStep
  <2>3. CASE ~ EndStyle(2, "limit")
    <3>1. /\ style' = [style EXCEPT !.step = "write",
                           !.left = IF style.flag = "dry-run" THEN {} ELSE DOMAIN style.read]
          /\ style.flag = "none" => ~ Cardinality(DOMAIN style.read) > MAX_FIX_FILES
          /\ styleVerdict' = styleVerdict
      BY <1>1, <2>3 DEF AllRead
    <3>2. /\ style'.step = "write" /\ style'.cmd = style.cmd /\ style'.flag = style.flag
          /\ style'.read = style.read /\ style'.wrote = style.wrote
          /\ style'.left = IF style.flag = "dry-run" THEN {} ELSE DOMAIN style.read
          /\ style' = [x \in StyleFields |-> style'[x]]
      BY <1>0, <3>1 DEF StyleRuns, StyleFields
    <3>3. IsFiniteSet(DOMAIN style.read) /\ Cardinality(DOMAIN style.read) \in Nat
      BY <1>0, FS_Subset, FS_CardinalityType DEF StyleRuns, PyStyleAssumption
    <3>4. style.flag = "none" => Cardinality(DOMAIN style.read) <= MAX_FIX_FILES
      BY <3>1, <3>3 DEF PyStyleAssumption
    <3>5. StyleRuns' /\ WritesRationed' /\ style' # NoStyle
      BY <1>0, <2>1, <3>2, <3>4 DEF StyleRuns, WritesRationed, NoStyle
    <3>6. WaitingSound' /\ FixKeepsMeaning'
      BY <1>0, <2>1, <3>1, <3>2 DEF WaitingSound, FixKeepsMeaning, IsText
    <3>7. QED
      BY <1>0, <2>1, <3>1, <3>5, <3>6 DEF StyleInv
  <2>4. QED
    BY <2>2, <2>3
<1>2. ASSUME NEW f \in StyleFiles, ApproveWrite(f)
      PROVE  StyleInv'
  <2>1. /\ style.step = "write" /\ f \in style.left
        /\ UNCHANGED <<sources, linked, authored, overtaken>>
    BY <1>2 DEF ApproveWrite
  <2>2. CASE sources[f] = ALink
    BY <1>0, <1>2, <2>1, <2>2, PutAsideStep DEF ApproveWrite
  <2>3. CASE sources[f] # ALink
    <3>1. /\ style' = [style EXCEPT !.step = "approved", !.target = f]
          /\ styleVerdict' = styleVerdict
      BY <1>2, <2>3 DEF ApproveWrite
    <3>2. /\ style'.step = "approved" /\ style'.cmd = style.cmd /\ style'.flag = style.flag
          /\ style'.read = style.read /\ style'.wrote = style.wrote
          /\ style'.left = style.left /\ style'.target = f
          /\ style' = [x \in StyleFields |-> style'[x]]
      BY <1>0, <3>1 DEF StyleRuns, StyleFields
    <3>3. StyleRuns' /\ WritesRationed' /\ style' # NoStyle
      BY <1>0, <2>1, <3>2 DEF StyleRuns, WritesRationed, NoStyle
    <3>4. WaitingSound'
      BY <1>0, <2>1, <2>3, <3>2 DEF WaitingSound, IsText
    <3>5. FixKeepsMeaning'
      BY <1>0, <2>1, <3>1, <3>2 DEF FixKeepsMeaning, IsText
    <3>6. QED
      BY <1>0, <2>1, <3>1, <3>3, <3>4, <3>5 DEF StyleInv
  <2>4. QED
    BY <2>2, <2>3
<1>3. CASE WriteSource /\ style' = NoStyle
  <2> DEFINE f == style.target
  <2>1. [style EXCEPT !.step = "write", !.left = @ \ {f}, !.wrote = @ \cup {f}].step = "write"
    BY <1>0 DEF StyleRuns, StyleFields
  <2>2. NoStyle.step = "none"
    BY DEF NoStyle
  <2>3. /\ UNCHANGED <<authored, overtaken>>
        /\ \/ EndStyle(2, "write") /\ UNCHANGED <<sources, linked>>
           \/ EndTearing(2, "write", {f}) /\ Overwrite(f, TornText)
    BY <1>3, <2>1, <2>2 DEF WriteSource
  <2>4. CASE EndStyle(2, "write") /\ UNCHANGED <<sources, linked>>
    BY <1>0, <2>3, <2>4, EndStyleStep
  <2>5. CASE EndTearing(2, "write", {f}) /\ Overwrite(f, TornText)
    <3>1. /\ styleVerdict'.torn = {f} /\ styleVerdict'.why = "write"
          /\ style.step = "approved" /\ f \in StyleFiles /\ style.cmd = "fix"
          /\ f \in DOMAIN style.read \ style.wrote
      BY <1>0, <1>3, <2>5 DEF EndTearing, WriteSource, WritesRationed, StyleRuns
    <3>2. /\ DOMAIN sources' = StyleFiles
          /\ \A g \in StyleFiles : g # f => sources'[g] = sources[g]
      BY <1>0, <2>5 DEF Overwrite
    <3>3. linked' = linked \/ f \in overtaken
      BY <1>0, <2>5, <3>1 DEF Overwrite, WaitingSound
    <3>4. FixKeepsMeaning'
      BY <1>0, <1>3, <2>3, <3>1, <3>2, <3>3 DEF FixKeepsMeaning, IsText
    <3>5. QED
      BY <1>0, <1>3, <2>3, <3>2, <3>4 DEF StyleInv
  <2>6. QED
    BY <2>3, <2>4, <2>5
<1>4. CASE WriteSource /\ style' # NoStyle
  <2> DEFINE f == style.target
  <2>1. /\ style.step = "approved" /\ UNCHANGED <<authored, overtaken, styleVerdict>>
        /\ IF sources[f] = ALink
           THEN linked' = style.read[f] /\ UNCHANGED sources
           ELSE sources' = [sources EXCEPT ![f] = style.read[f]] /\ UNCHANGED linked
        /\ style' = [style EXCEPT !.step = "write", !.left = @ \ {f}, !.wrote = @ \cup {f}]
    BY <1>4 DEF WriteSource, Overwrite, EndStyle, EndTearing
  <2>2. /\ f \in style.left /\ f \in DOMAIN style.read \ style.wrote /\ f \in StyleFiles
        /\ style.cmd = "fix" /\ style.flag # "dry-run"
    BY <1>0, <2>1 DEF WritesRationed, StyleRuns
  <2>3. /\ style'.step = "write" /\ style'.cmd = style.cmd /\ style'.flag = style.flag
        /\ style'.read = style.read /\ style'.wrote = style.wrote \cup {f}
        /\ style'.left = style.left \ {f}
        /\ style' = [x \in StyleFields |-> style'[x]]
    BY <1>0, <2>1 DEF StyleRuns, StyleFields
  <2>4. StyleRuns' /\ WritesRationed' /\ style' # NoStyle
    <3>1. StyleRuns' /\ style' # NoStyle
      BY <1>0, <2>2, <2>3 DEF StyleRuns, NoStyle
    <3>2. WritesRationed'
      BY <1>0, <2>1, <2>2, <2>3 DEF WritesRationed
    <3>3. QED
      BY <3>1, <3>2
  <2>5. f \notin overtaken =>
          /\ sources[f] # ALink /\ sources[f] # NoSource
          /\ style.read[f].means = authored[f]
    BY <1>0, <2>1, <2>2 DEF WaitingSound, IsText
  <2>6. /\ DOMAIN sources' = StyleFiles
        /\ \A g \in StyleFiles : g # f => sources'[g] = sources[g]
        /\ f \notin overtaken => sources'[f] = style.read[f]
    BY <1>0, <2>1, <2>2, <2>5
  <2>7. WaitingSound'
    <3>1. \A g \in DOMAIN style'.read \ (overtaken' \cup style'.wrote) :
            g # f /\ g \in DOMAIN style.read \ (overtaken \cup style.wrote) /\ g \in StyleFiles
      BY <1>0, <2>1, <2>3 DEF StyleRuns
    <3>2. QED
      BY <1>0, <2>1, <2>2, <2>3, <2>6, <3>1 DEF WaitingSound, IsText
  <2>8. FixKeepsMeaning'
    <3>1. \A g \in StyleFiles \ overtaken' : IsText(sources'[g]) => sources'[g].means = authored'[g]
      BY <1>0, <2>1, <2>5, <2>6 DEF FixKeepsMeaning, IsText
    <3>2. linked' = Outside \/ overtaken' # {}
      BY <1>0, <2>1, <2>5 DEF FixKeepsMeaning
    <3>3. style.flag = "none" => Cardinality(style'.wrote) <= MAX_FIX_FILES
      <4>1. IsFiniteSet(DOMAIN style.read)
        BY <1>0, FS_Subset DEF StyleRuns, PyStyleAssumption
      <4>2. style'.wrote \subseteq DOMAIN style.read
        BY <1>0, <2>2, <2>3 DEF StyleRuns
      <4>3. /\ Cardinality(style'.wrote) <= Cardinality(DOMAIN style.read)
            /\ Cardinality(style'.wrote) \in Nat /\ Cardinality(DOMAIN style.read) \in Nat
        BY <4>1, <4>2, FS_Subset, FS_CardinalityType
      <4>4. QED
        BY <1>0, <2>1, <4>3 DEF WritesRationed, PyStyleAssumption
    <3>4. QED
      BY <1>0, <2>1, <2>2, <2>3, <3>1, <3>2, <3>3 DEF FixKeepsMeaning, IsText
  <2>9. QED
    BY <1>0, <2>1, <2>4, <2>6, <2>7, <2>8 DEF StyleInv
<1>5. QED
  BY <1>1, <1>2, <1>3, <1>4

LEMMA StyleStartStep ==
    ASSUME PyStyleAssumption, StyleInv, NEW cmd \in {"check", "fix"}, NEW where, NEW use,
           NEW select, NEW ignore, NEW flag, NEW found,
           StartStyle(cmd, where, use, select, ignore, flag, found)
    PROVE  StyleInv'
<1> DEFINE config == LoadConfig(where, use)
<1> DEFINE active == ActiveRuleIds(config, select, ignore)
<1> DEFINE files == DiscoverFiles(config)
<1>1. /\ style = NoStyle /\ styleVerdict.torn = {}
      /\ UNCHANGED <<sources, linked, authored, overtaken>>
  BY DEF StartStyle, Unstyled
<1>2. CASE EndStyle(2, "usage")
  BY <1>1, <1>2, EndStyleStep
<1>3. CASE ~ EndStyle(2, "usage")
  <2> HIDE DEF config, active
  <2>1. /\ style' = [step |-> "read", cmd |-> cmd, flag |-> flag, config |-> config,
                     active |-> active, files |-> files, left |-> files,
                     read |-> [g \in {} |-> NoSource], wrote |-> {}, target |-> NoSource]
        /\ styleVerdict' = styleVerdict
    BY <1>3 DEF StartStyle, config, active
  <2>2. files \subseteq StyleFiles
    BY DEF DiscoverFiles
  <2> HIDE DEF files
  <2>3. /\ style'.step = "read" /\ style'.cmd = cmd /\ style'.flag = flag
        /\ style'.files = files /\ style'.left = files /\ style'.wrote = {}
        /\ style'.read = [g \in {} |-> NoSource]
        /\ style' = [x \in StyleFields |-> style'[x]]
    BY <2>1 DEF StyleFields
  <2>4. DOMAIN style'.read = {} /\ style'.read = [g \in DOMAIN style'.read |-> style'.read[g]]
    BY <2>3
  <2>5. StyleRuns' /\ WritesRationed' /\ WaitingSound'
    BY <2>2, <2>3, <2>4 DEF StyleRuns, WritesRationed, WaitingSound
  <2>6. FixKeepsMeaning'
    <3>1. Cardinality({}) <= MAX_FIX_FILES
      BY FS_EmptySet DEF PyStyleAssumption
    <3>2. QED
      BY <1>1, <2>1, <2>3, <3>1 DEF StyleInv, FixKeepsMeaning, IsText
  <2>7. QED
    BY <1>1, <2>1, <2>5, <2>6 DEF StyleInv
<1>4. QED
  BY <1>2, <1>3

LEMMA EditSourceStep ==
    ASSUME StyleInv, NEW f \in StyleFiles, NEW t, EditSource(f, t)
    PROVE  StyleInv'
<1>0. /\ style # NoStyle /\ styleVerdict.torn = {}
      /\ StyleRuns /\ WritesRationed /\ WaitingSound
      /\ FixKeepsMeaning /\ DOMAIN sources = StyleFiles /\ DOMAIN authored = StyleFiles
  BY DEF EditSource, StyleInv
<1>1. /\ UNCHANGED <<linked, style, styleVerdict>>
      /\ sources' = [sources EXCEPT ![f] = t]
      /\ authored' = IF IsText(t) THEN [authored EXCEPT ![f] = t.means] ELSE authored
      /\ overtaken' = IF style.cmd = "fix" /\ f \in DOMAIN style.read \ style.wrote
                      THEN overtaken \cup {f} ELSE overtaken
  BY DEF EditSource
<1>2. /\ DOMAIN sources' = StyleFiles /\ DOMAIN authored' = StyleFiles
      /\ sources'[f] = t /\ IsText(t) => authored'[f] = t.means
      /\ \A g \in StyleFiles \ {f} : sources'[g] = sources[g] /\ authored'[g] = authored[g]
      /\ overtaken \subseteq overtaken'
      /\ style.cmd = "fix" /\ f \in DOMAIN style.read \ style.wrote => f \in overtaken'
  BY <1>0, <1>1
<1>3. StyleRuns' /\ WritesRationed'
  BY <1>0, <1>1 DEF StyleRuns, WritesRationed
<1>4. WaitingSound'
  <2>1. style.step = "approved" /\ style.cmd = "fix" =>
            style.target \in DOMAIN style.read \ style.wrote /\ style.target \in StyleFiles
    BY <1>0 DEF WritesRationed, StyleRuns
  <2>2. \A g \in DOMAIN style.read : g \in StyleFiles
    BY <1>0 DEF StyleRuns
  <2>3. QED
    BY <1>0, <1>1, <1>2, <2>1, <2>2 DEF WaitingSound, IsText
<1>5. FixKeepsMeaning'
  BY <1>0, <1>1, <1>2 DEF FixKeepsMeaning, IsText
<1>6. QED
  BY <1>0, <1>1, <1>2, <1>3, <1>4, <1>5 DEF StyleInv

LEMMA StyleInvStep ==
    ASSUME PyStyleAssumption, StyleInv, [PyStyleNext]_styleVars
    PROVE  StyleInv'
<1>1. CASE UNCHANGED styleVars
  BY <1>1 DEF StyleInv, styleVars, StyleRuns, WritesRationed, WaitingSound, FixKeepsMeaning, IsText
<1>2. ASSUME NEW cmd \in {"check", "fix"}, NEW where, NEW use, NEW select, NEW ignore, NEW flag,
             NEW found, StartStyle(cmd, where, use, select, ignore, flag, found)
      PROVE  StyleInv'
  BY <1>2, StyleStartStep
<1>3. CASE \E f \in StyleFiles : ReadForCheck(f) \/ ReadForFix(f)
  BY <1>3, StyleReadStep
<1>4. CASE AllRead \/ (\E f \in StyleFiles : ApproveWrite(f)) \/ WriteSource
  BY <1>4, StyleWriteStep
<1>5. CASE EndCheck \/ Refresh \/ StyleKilled
  <2>1. UNCHANGED <<sources, linked, authored, overtaken>>
    BY <1>5 DEF EndCheck, Refresh, StyleKilled
  <2>2. \E code, why : why \notin {"usage", "fatal", "limit", "read"} /\ EndStyle(code, why)
    BY <1>5 DEF EndCheck, Refresh, StyleKilled
  <2>3. styleVerdict.torn = {}
    BY <1>5 DEF StyleInv, EndCheck, Refresh, StyleKilled
  <2>4. QED
    BY <2>1, <2>2, <2>3, EndStyleStep
<1>6. CASE \E f \in StyleFiles, t \in StyleTexts \cup {NoSource, ALink} : EditSource(f, t)
  BY <1>6, EditSourceStep
<1>7. QED
  <2>1. SUFFICES ASSUME PyStyleNext PROVE StyleInv'
    BY <1>1
  <2>2. PyStyleNext =>
          \/ \E cmd \in {"check", "fix"} : \E where, use, select, ignore, flag, found :
                StartStyle(cmd, where, use, select, ignore, flag, found)
          \/ \E f \in StyleFiles : ReadForCheck(f) \/ ReadForFix(f) \/ ApproveWrite(f)
          \/ EndCheck \/ AllRead \/ WriteSource \/ Refresh \/ StyleKilled
          \/ \E f \in StyleFiles, t \in StyleTexts \cup {NoSource, ALink} : EditSource(f, t)
    BY Zenon DEF PyStyleNext
  <2>3. QED
    BY <2>1, <2>2, <1>2, <1>3, <1>4, <1>5, <1>6

LEMMA StyleStart ==
    ASSUME PyStyleInit
    PROVE  StyleInv
<1>1. /\ DOMAIN sources = StyleFiles /\ authored = [f \in StyleFiles |-> sources[f].means]
      /\ linked = Outside /\ style = NoStyle /\ styleVerdict = Unstyled /\ overtaken = {}
  BY DEF PyStyleInit
<1>2. styleVerdict.why = "runs"
  BY <1>1 DEF Unstyled
<1>3. QED
  BY <1>1, <1>2 DEF StyleInv, FixKeepsMeaning

-----------------------------------------------------------------------------
(* The generated callers *)

Checkouts_ == [FileNames -> Texts \cup {NoText}]

CheckoutSound ==
    /\ release \in DOMAIN Anchors /\ edition \in [Required \cup OptIn -> Nat]
    /\ work \in Checkouts_

FleetInv == CheckoutSound /\ RegenerationSettles

\* What the generator writes.
LEMMA RenderIs ==
    ASSUME CheckoutSound, NEW n \in Required \cup OptIn, NEW ref \in {Baseline, "master"}
    PROVE  /\ RenderCaller(n, ref) \in Texts /\ RenderCaller(n, ref) # NoText
           /\ RenderCaller(n, ref).template = n /\ RenderCaller(n, ref).ref = ref
           /\ RenderCaller(n, ref).form = "exact"
<1>1. Baseline \in Pins
  BY DEF Baseline, Pins, CheckoutSound
<1>2. edition[n] \in Nat
  BY DEF CheckoutSound
<1>3. RenderCaller(n, ref) \in Texts
  BY <1>1, <1>2 DEF RenderCaller, Texts, Floating, Forms
<1>4. QED
  BY <1>3, NoTextAssumption DEF RenderCaller

LEMMA NamesAre ==
    /\ Required \cup OptIn \subseteq FileNames
    /\ FileNames \ (Required \cup OptIn) = {"other"}
    /\ "commit-msg-lint" \in Required
BY DEF Required, OptIn, FileNames

LEMMA EnsuredOneSound ==
    ASSUME CheckoutSound, NEW files \in Checkouts_, NEW n \in Required \cup OptIn, NEW force,
           NEW ref \in {Baseline, "master"}
    PROVE  EnsuredOne(files, n, force, ref) \in Checkouts_
<1>1. RenderCaller(n, ref) \in Texts
  BY RenderIs
<1>2. QED
  BY <1>1, NamesAre DEF EnsuredOne, Checkouts_

\* Generating keeps the checkout as it has to be.
LEMMA EnsuredSound ==
    ASSUME CheckoutSound, NEW files \in Checkouts_, NEW wanted, NEW force,
           NEW ref \in {Baseline, "master"}
    PROVE  Ensured(files, wanted, force, ref) \in Checkouts_
<1> DEFINE Do(done, n) == IF n \in wanted THEN EnsuredOne(done, n, force, ref) ELSE done
<1>1. \A done \in Checkouts_ : \A n \in Required \cup OptIn : Do(done, n) \in Checkouts_
  BY EnsuredOneSound
<1>2. {"commit-msg-lint", "ci-cache", "p0"} = Required \cup OptIn
  BY DEF Required, OptIn
<1>3. Ensured(files, wanted, force, ref) = Do(Do(Do(files, "commit-msg-lint"), "ci-cache"), "p0")
  BY DEF Ensured
<1> HIDE DEF Do
<1>4. QED
  BY <1>1, <1>2, <1>3

\* What is written under a name is clean; what is not was missing, with an alias then.
LEMMA EnsuredOneIs ==
    ASSUME NEW was, NEW n
    PROVE  EnsuredOne(was, n, TRUE, Baseline) =
              IF was[n] = NoText /\ CanonicalAlias(was, RenderCaller(n, Baseline), n)
              THEN was ELSE [was EXCEPT ![n] = RenderCaller(n, Baseline)]
BY DEF EnsuredOne

LEMMA CleanIsNoProblem ==
    ASSUME CheckoutSound, NEW files \in Checkouts_
    PROVE  \A n \in Required : n \in DriftProblems(files) <=>
              IF files[n] = NoText THEN ~CanonicalAlias(files, RenderCaller(n, Baseline), n)
              ELSE ~IsCalleeDefinition(files[n]) /\ CallerRenderState(files[n], n) = "drifted"
BY DEF DriftProblems

LEMMA RegeneratesAllButParked ==
    ASSUME CheckoutSound, NEW files \in Checkouts_, NEW gates \in SUBSET OptIn
    PROVE  LET after == Ensured(files, Required \cup gates, TRUE, Baseline)
           IN  /\ DriftProblems(after) = Parked(files, Required \cup gates)
               /\ \A n \in Required : after[n] \in {NoText, RenderCaller(n, Baseline)}
<1> DEFINE lint == "commit-msg-lint"
           cache == "ci-cache"
           R(n) == RenderCaller(n, Baseline)
           wanted == Required \cup gates
           one == EnsuredOne(files, lint, TRUE, Baseline)
           two == EnsuredOne(one, cache, TRUE, Baseline)
           after == IF "p0" \in gates THEN EnsuredOne(two, "p0", TRUE, Baseline) ELSE two
<1>0. lint \in Required \cup OptIn /\ cache \in Required \cup OptIn /\ "p0" \in Required \cup OptIn
  BY DEF Required, OptIn
<1>1. Ensured(files, wanted, TRUE, Baseline) = after
  BY DEF Ensured, Required, OptIn
<1>2. /\ lint \in Required /\ cache \in Required /\ Required = {lint, cache}
      /\ FileNames = {lint, cache, "p0", "other"} /\ gates \subseteq {"p0"} /\ OptIn = {"p0"}
  BY DEF Required, OptIn, FileNames
<1>3. /\ R(lint) # NoText /\ R(cache) # NoText /\ R("p0") # NoText
      /\ R(lint) # R(cache) /\ R(lint) # R("p0") /\ R(cache) # R("p0")
  <2>1. R(lint) # NoText /\ R(lint).template = lint
    BY <1>0, RenderIs
  <2>2. R(cache) # NoText /\ R(cache).template = cache
    BY <1>0, RenderIs
  <2>3. R("p0") # NoText /\ R("p0").template = "p0"
    BY <1>0, RenderIs
  <2>4. QED
    BY <2>1, <2>2, <2>3
<1> DEFINE Alias(f, n) == CanonicalAlias(f, R(n), n)
<1>4. \A f, n : Alias(f, n) <=> \E m \in FileNames \ {n} : f[m] = R(n)
  BY DEF CanonicalAlias
<1>20. R(lint) \in Texts /\ R(cache) \in Texts /\ R("p0") \in Texts
  BY <1>0, RenderIs
<1>5. /\ one \in Checkouts_ /\ one[cache] = files[cache] /\ one["p0"] = files["p0"] /\ one["other"] = files["other"]
      /\ one[lint] = IF files[lint] = NoText /\ Alias(files, lint) THEN NoText ELSE R(lint)
  <2>1. one = IF files[lint] = NoText /\ Alias(files, lint) THEN files ELSE [files EXCEPT ![lint] = R(lint)]
    BY EnsuredOneIs
  <2> HIDE DEF one, Alias, R
  <2>2. QED
    BY <1>2, <1>20, <2>1 DEF Checkouts_
<1>6. /\ two \in Checkouts_ /\ two[lint] = one[lint] /\ two["p0"] = one["p0"] /\ two["other"] = one["other"]
      /\ two[cache] = IF one[cache] = NoText /\ Alias(one, cache) THEN NoText ELSE R(cache)
  <2> HIDE DEF one
  <2>1. two = IF one[cache] = NoText /\ Alias(one, cache) THEN one ELSE [one EXCEPT ![cache] = R(cache)]
    BY EnsuredOneIs
  <2> HIDE DEF two, Alias, R
  <2>2. QED
    BY <1>2, <1>5, <1>20, <2>1 DEF Checkouts_
<1>7. /\ after \in Checkouts_ /\ after[lint] = two[lint] /\ after[cache] = two[cache] /\ after["other"] = two["other"]
      /\ "p0" \notin gates => after["p0"] = two["p0"]
      /\ "p0" \in gates => after["p0"] = IF two["p0"] = NoText /\ Alias(two, "p0") THEN NoText ELSE R("p0")
  <2> HIDE DEF two
  <2>1. "p0" \notin gates => after = two
    OBVIOUS
  <2>2. "p0" \in gates =>
           after = IF two["p0"] = NoText /\ Alias(two, "p0") THEN two ELSE [two EXCEPT !["p0"] = R("p0")]
    BY EnsuredOneIs
  <2> HIDE DEF after, Alias, R
  <2>3. QED
    BY <1>2, <1>6, <1>20, <2>1, <2>2 DEF Checkouts_
<1>8. \A n \in Required : after[n] \in {NoText, R(n)}
  <2> HIDE DEF one, two, after, R, Alias
  <2>1. QED
    BY <1>2, <1>5, <1>6, <1>7
<1>9. \A n \in Required : n \in DriftProblems(after) <=> after[n] = NoText /\ ~Alias(after, n)
  <2>1. \A n \in Required : CallerRenderState(R(n), n) # "drifted"
    BY DEF CallerRenderState
  <2> HIDE DEF one, two, after, R
  <2>2. QED
    BY <1>7, <1>8, <2>1, CleanIsNoProblem DEF R
<1>10. \A n \in Required : n \in Parked(files, wanted) <=>
           /\ files[n] = NoText
           /\ \A m \in FileNames \ {n} : files[m] = R(n) => m \in wanted
           /\ \E m \in Later(n) : m \in FileNames \ {n} /\ files[m] = R(n)
  BY DEF Parked
<1>11. Later(lint) = {cache, "p0"} /\ Later(cache) = {"p0"}
  BY DEF Later
<1> HIDE DEF one, two, after, R, Alias
<1>12. lint \in DriftProblems(after) <=> lint \in Parked(files, wanted)
  BY <1>2, <1>3, <1>4, <1>5, <1>6, <1>7, <1>9, <1>10, <1>11
<1>13. cache \in DriftProblems(after) <=> cache \in Parked(files, wanted)
  BY <1>2, <1>3, <1>4, <1>5, <1>6, <1>7, <1>9, <1>10, <1>11
<1>14. DriftProblems(after) \subseteq Required /\ Parked(files, wanted) \subseteq Required
  BY DEF DriftProblems, Parked
<1>15. DriftProblems(after) = Parked(files, wanted)
  BY <1>2, <1>12, <1>13, <1>14
<1>16. QED
  BY <1>1, <1>8, <1>15 DEF R

\* What the first run passed by, the second generates.
Regenerated == \A n \in Required : work[n] \in {NoText, RenderCaller(n, Baseline)}

LEMMA SecondRunSettles ==
    CheckoutSound /\ Regenerated => DriftProblems(Ensured(work, Required, TRUE, Baseline)) = {}
<1> SUFFICES ASSUME CheckoutSound, Regenerated
             PROVE  DriftProblems(Ensured(work, Required, TRUE, Baseline)) = {}
  OBVIOUS
<1>1. DriftProblems(Ensured(work, Required, TRUE, Baseline)) = Parked(work, Required)
  <2>1. {} \in SUBSET OptIn /\ Required \cup {} = Required /\ work \in Checkouts_
    BY DEF CheckoutSound
  <2>2. QED
    BY <2>1, RegeneratesAllButParked
<1>2. ASSUME NEW n \in Parked(work, Required) PROVE FALSE
  <2>1. PICK m \in Later(n) \cap Required : n \in Required /\ m # n /\ work[m] = RenderCaller(n, Baseline)
    BY <1>2 DEF Parked
  <2>2. /\ RenderCaller(n, Baseline) # NoText /\ RenderCaller(n, Baseline).template = n
        /\ RenderCaller(m, Baseline).template = m
    BY <2>1, RenderIs
  <2>3. QED
    BY <2>1, <2>2 DEF Regenerated
<1>3. QED
  BY <1>1, <1>2

LEMMA EditCallerSound ==
    ASSUME CheckoutSound, NEW n \in FileNames, EditCaller(n), release' = release, edition' = edition
    PROVE  CheckoutSound'
<1>1. work[n] \in Texts
  BY DEF EditCaller, CheckoutSound, Checkouts_
<1>2. ASSUME NEW x \in Texts, work' = [work EXCEPT ![n] = x]
      PROVE  CheckoutSound'
  BY <1>2 DEF CheckoutSound, Checkouts_
<1>3. CASE \E form \in Forms \ {work[n].form} : work' = [work EXCEPT ![n].form = form]
  <2>1. PICK form \in Forms : work' = [work EXCEPT ![n].form = form]
    BY <1>3
  <2>2. [work[n] EXCEPT !.form = form] \in Texts
    BY <1>1 DEF Texts
  <2>4. QED
    BY <1>2, <2>1, <2>2 DEF CheckoutSound, Checkouts_
<1>4. CASE \E ref \in {"master", "main"} : work' = [work EXCEPT ![n].ref = ref]
  <2>1. PICK ref \in {"master", "main"} : work' = [work EXCEPT ![n].ref = ref]
    BY <1>4
  <2>2. [work[n] EXCEPT !.ref = ref] \in Texts
    BY <1>1 DEF Texts, Floating
  <2>4. QED
    BY <1>2, <2>1, <2>2 DEF CheckoutSound, Checkouts_
<1>5. CASE work' = [work EXCEPT ![n].input = "master"]
  <2>2. [work[n] EXCEPT !.input = "master"] \in Texts
    BY <1>1 DEF Texts, Floating
  <2>4. QED
    BY <1>2, <1>5, <2>2 DEF CheckoutSound, Checkouts_
<1>6. CASE work' = [work EXCEPT ![n].also = TRUE]
  <2>2. [work[n] EXCEPT !.also = TRUE] \in Texts
    BY <1>1 DEF Texts
  <2>4. QED
    BY <1>2, <1>6, <2>2 DEF CheckoutSound, Checkouts_
<1>7. CASE \E m \in FileNames \ {n}, keep \in {NoText, work[n]},
              copy \in {work[n], [work[n] EXCEPT !.form = "flow", !.ref = "master"]} :
                 work' = [work EXCEPT ![m] = copy, ![n] = keep]
  <2>1. PICK m \in FileNames \ {n}, keep \in {NoText, work[n]},
              copy \in {work[n], [work[n] EXCEPT !.form = "flow", !.ref = "master"]} :
                 work' = [work EXCEPT ![m] = copy, ![n] = keep]
    BY <1>7
  <2>2. copy \in Texts
    BY <1>1 DEF Texts, Forms, Floating
  <2>3. work' \in Checkouts_
    BY <1>1, <2>1, <2>2 DEF CheckoutSound, Checkouts_
  <2>4. QED
    BY <2>3 DEF CheckoutSound
<1>8. QED
  BY <1>3, <1>4, <1>5, <1>6, <1>7 DEF EditCaller

\* What a command that only installs a hook, or looks, leaves alone.
LEMMA HooksFrame ==
    ASSUME NEW force, HookInstall(force) \/ HookUninstall(force)
    PROVE  UNCHANGED <<release, edition, work>> /\ initRun'.did = "hook"
<1>1. CASE HookInstall(force)
  BY <1>1 DEF HookInstall, Ended, NoRun
<1>2. CASE HookUninstall(force)
  <2>1. UNCHANGED <<release, edition, work>> /\ \E exit_ : Ended("hook", exit_)
    BY <1>2 DEF HookUninstall
  <2>2. QED
    BY <2>1 DEF Ended, NoRun
<1>3. QED
  BY <1>1, <1>2

LEMMA ScanFrame ==
    ASSUME NEW far, NEW strict, NEW warnOnly, FleetScan(far, strict, warnOnly)
    PROVE  UNCHANGED <<release, edition, work>> /\ initRun'.did = "audit"
<1>1. UNCHANGED <<release, edition, work>> /\ Ended("audit", 0)
  BY DEF FleetScan
<1>2. QED
  BY <1>1 DEF Ended, NoRun

LEMMA EndedIs ==
    \A said, code : Ended(said, code) => initRun'.did = said /\ initRun'.exit = code
BY DEF Ended, NoRun

LEMMA InitSettles ==
    ASSUME CheckoutSound, CheckoutSound', NEW gates \in SUBSET OptIn,
           UNCHANGED <<release, edition>>, staged' = release, ignored' = TRUE,
           work' = Ensured(work, Required \cup gates, TRUE, Baseline),
           initRun'.parked = Parked(work, Required \cup gates)
    PROVE  RegenerationSettles'
<1>1. /\ DriftProblems(work') = Parked(work, Required \cup gates)
      /\ \A n \in Required : work'[n] \in {NoText, RenderCaller(n, Baseline)}
  BY RegeneratesAllButParked DEF CheckoutSound
<1>2. DriftProblems(work)' = DriftProblems(work')
  BY DEF DriftProblems, CanonicalAlias, CallerRenderState, RenderCaller, Baseline, RefsIn, IsCalleeDefinition
<1>3. Regenerated'
  BY <1>1 DEF Regenerated, RenderCaller, Baseline
<1>4. (CheckoutSound /\ Regenerated => DriftProblems(Ensured(work, Required, TRUE, Baseline)) = {})'
  BY SecondRunSettles, PTL
<1>5. (DriftProblems(Ensured(work, Required, TRUE, Baseline)) = {})'
  BY <1>3, <1>4
<1>6. QED
  BY <1>1, <1>2, <1>5 DEF RegenerationSettles

LEMMA FleetInvStep ==
    ASSUME FleetInv, [FleetNext]_fleetVars
    PROVE  FleetInv'
<1> CheckoutSound /\ RegenerationSettles
  BY DEF FleetInv
<1>1. ASSUME NEW force \in BOOLEAN, NEW ww \in BOOLEAN, NEW gates \in SUBSET OptIn,
             NEW ref \in {Baseline, "master"}, Init_(force, ww, ww, gates, ref)
      PROVE  FleetInv'
  <2>1. UNCHANGED <<release, edition>> /\ staged' = release /\ ignored' = TRUE
    BY <1>1 DEF Init_, Stages
  <2>2. CheckoutSound'
    <3>1. work' \in Checkouts_
      <4>1. CASE ww
        BY <1>1, <4>1, EnsuredSound DEF Init_, CheckoutSound
      <4>2. CASE ~ ww
        BY <1>1, <4>2 DEF Init_, CheckoutSound
      <4>3. QED
        BY <4>1, <4>2
    <3>2. QED
      BY <2>1, <3>1 DEF CheckoutSound
  <2>3. \/ initRun'.did # "regenerated"
        \/ /\ ww /\ force /\ ref = Baseline
           /\ initRun'.parked = Parked(work, Required \cup gates)
    <3>1. CASE Ended("usage", 2) \/ Ended("staged", 0)
      BY <3>1, EndedIs
    <3>2. CASE /\ ww /\ force /\ ref = Baseline
               /\ initRun' = [did |-> "regenerated", exit |-> 0, parked |-> Parked(work, Required \cup gates)]
      BY <3>2
    <3>3. QED
      BY <1>1, <3>1, <3>2 DEF Init_
  <2>4. RegenerationSettles'
    <3>1. CASE ww /\ force /\ ref = Baseline /\ initRun'.parked = Parked(work, Required \cup gates)
      <4>1. work' = Ensured(work, Required \cup gates, TRUE, Baseline)
        BY <1>1, <3>1 DEF Init_
      <4>2. QED
        BY <1>1, <2>1, <2>2, <3>1, <4>1, InitSettles
    <3>2. CASE initRun'.did # "regenerated"
      BY <3>2 DEF RegenerationSettles
    <3>3. QED
      BY <2>3, <3>1, <3>2
  <2>5. QED
    BY <2>2, <2>4 DEF FleetInv
<1>2. ASSUME NEW force \in BOOLEAN, InitCut(force, Baseline)
      PROVE  FleetInv'
  <2>1. /\ UNCHANGED <<release, edition>> /\ initRun'.did = "cut"
        /\ work' = Ensured(work, {"commit-msg-lint"}, force, Baseline)
    BY <1>2 DEF InitCut, Stages, Ended, NoRun
  <2>2. CheckoutSound'
    BY <2>1, EnsuredSound DEF CheckoutSound
  <2>3. QED
    BY <2>1, <2>2 DEF FleetInv, RegenerationSettles
<1>3. ASSUME UNCHANGED <<release, edition, work>>, initRun'.did # "regenerated"
      PROVE  FleetInv'
  BY <1>3 DEF FleetInv, RegenerationSettles, CheckoutSound
<1>4. CASE (\E force \in BOOLEAN : HookInstall(force) \/ HookUninstall(force)) \/ InitCheck \/ HookCheck
  <2>1. ASSUME NEW force \in BOOLEAN, HookInstall(force) \/ HookUninstall(force)
        PROVE  FleetInv'
    BY <1>3, <2>1, HooksFrame
  <2>2. CASE InitCheck \/ HookCheck
    BY <1>3, <2>2 DEF InitCheck, HookCheck, Ended, NoRun
  <2>3. QED
    BY <1>4, <2>1, <2>2
<1>5. CASE Release
  <2>1. release \in Nat /\ Len(Anchors) \in Nat /\ DOMAIN Anchors = 1..Len(Anchors)
    BY RepoInitAssumption DEF CheckoutSound
  <2>2. PICK changed \in TemplateChanges :
           edition' = [t \in Required \cup OptIn |-> IF t \in changed THEN edition[t] + 1 ELSE edition[t]]
    BY <1>5 DEF Release
  <2>3. edition' \in [Required \cup OptIn -> Nat]
    BY <2>2 DEF CheckoutSound
  <2>4. CheckoutSound' /\ initRun'.did = "released"
    BY <1>5, <2>1, <2>3 DEF Release, CheckoutSound, Ended, NoRun
  <2>5. QED
    BY <2>4 DEF FleetInv, RegenerationSettles
<1>6. CASE EditRepo
  <2>1. CheckoutSound'
    BY <1>6, EditCallerSound DEF EditRepo, EditRest, CheckoutSound
  <2>2. initRun'.did = "edited"
    BY <1>6 DEF EditRepo, Ended, NoRun
  <2>3. QED
    BY <2>1, <2>2 DEF FleetInv, RegenerationSettles
<1>7. CASE UNCHANGED repoInitVars
  <2>1. CheckoutSound'
    BY <1>7 DEF repoInitVars, CheckoutSound
  <2>2. CASE initRun.did # "regenerated"
    BY <1>7, <2>1, <2>2 DEF repoInitVars, FleetInv, RegenerationSettles
  <2>3. CASE initRun.did = "regenerated"
    <3>1. UNCHANGED <<release, edition, work, staged, ignored, initRun>>
      BY <1>7 DEF repoInitVars
    <3>2. DriftProblems(work)' = DriftProblems(work)
      BY <3>1 DEF DriftProblems, CanonicalAlias, CallerRenderState, RenderCaller, Baseline, RefsIn,
         IsCalleeDefinition
    <3>3. (DriftProblems(Ensured(work, Required, TRUE, Baseline)) = {})'
      <4>1. Ensured(work, Required, TRUE, Baseline)' = Ensured(work, Required, TRUE, Baseline)
        BY <3>1 DEF Ensured, EnsuredOne, CanonicalAlias, RenderCaller, Baseline
      <4> DEFINE again == Ensured(work, Required, TRUE, Baseline)
      <4>2. DriftProblems(again)' = DriftProblems(again)
        <5> HIDE DEF again
        <5>1. again' = again
          BY <4>1 DEF again
        <5>2. QED
          BY <3>1, <5>1 DEF DriftProblems, CanonicalAlias, CallerRenderState, RenderCaller, Baseline, RefsIn,
             IsCalleeDefinition
      <4>3. again = Ensured(work, Required, TRUE, Baseline) /\ DriftProblems(again) = {}
        BY <2>3 DEF RegenerationSettles
      <4>4. QED
        BY <4>2, <4>3
    <3>4. QED
      BY <2>1, <3>1, <3>2, <3>3 DEF FleetInv, RegenerationSettles
  <2>4. QED
    BY <2>2, <2>3
<1>8. CASE RepoInitNext
  BY <1>1, <1>2, <1>4, <1>5, <1>6, <1>8 DEF RepoInitNext
<1>9. ASSUME NEW own, NEW strict, NEW allowed, CiAudit(own, strict, allowed)
      PROVE  FleetInv'
  BY <1>3, <1>9 DEF CiAudit, Ended, NoRun
<1>10. CASE CiAuditUnreadable
  BY <1>3, <1>10 DEF CiAuditUnreadable, Ended, NoRun
<1>11. ASSUME NEW far, NEW strict, NEW warnOnly, FleetScan(far, strict, warnOnly)
      PROVE  FleetInv'
  BY <1>3, <1>11, ScanFrame
<1>12. QED
  BY <1>7, <1>8, <1>9, <1>10, <1>11 DEF FleetNext, fleetVars, Push, repoInitVars

LEMMA FleetStart == FleetInit => FleetInv
<1>1. SUFFICES ASSUME FleetInit PROVE FleetInv
  OBVIOUS
<1>2. Len(Anchors) \in Nat /\ DOMAIN Anchors = 1..Len(Anchors) /\ Len(Anchors) # 0
  BY RepoInitAssumption
<1>3. CheckoutSound
  BY <1>1, <1>2, NamesAre DEF FleetInit, RepoInitInit, CheckoutSound, Checkouts_
<1>4. QED
  BY <1>1, <1>3 DEF FleetInit, RepoInitInit, FleetInv, RegenerationSettles, NoRun

LEMMA ReleaseIsQuietStep ==
    ASSUME FleetInv, [FleetNext]_fleetVars
    PROVE  ReleaseIsQuiet
<1>1. SUFFICES ASSUME initRun'.did = "released", NEW n \in DriftProblems(work)' \ DriftProblems(work),
                      work[n] # NoText, edition'[n] = edition[n]
               PROVE  FALSE
  BY DEF ReleaseIsQuiet
<1>2. CASE Release
  <2>1. work' = work /\ n \in Required
    BY <1>1, <1>2 DEF Release, DriftProblems
  <2>2. ~IsCalleeDefinition(work[n]) /\ CallerRenderState(work[n], n)' = "drifted"
    BY <1>1, <2>1 DEF DriftProblems, IsCalleeDefinition
  <2>3. CallerRenderState(work[n], n) # "drifted"
    BY <1>1, <2>1, <2>2 DEF DriftProblems
  <2>4. \A ref : RenderCaller(n, ref)' = RenderCaller(n, ref)
    BY <1>1 DEF RenderCaller
  <2>5. PICK ref \in RefsIn(work[n]) : work[n] = RenderCaller(n, ref)
    <3>1. CASE work[n] = RenderCaller(n, Baseline)
      <4>1. RefsIn(work[n]) = {Baseline}
        BY <3>1 DEF RefsIn, RenderCaller
      <4>2. QED
        BY <3>1, <4>1
    <3>2. CASE work[n] # RenderCaller(n, Baseline)
      BY <2>3, <3>2 DEF CallerRenderState
    <3>3. QED
      BY <3>1, <3>2
  <2>6. RefsIn(work[n])' = RefsIn(work[n]) /\ work[n]' = work[n]
    BY <2>1 DEF RefsIn
  <2>7. QED
    BY <2>2, <2>4, <2>5, <2>6 DEF CallerRenderState
<1>3. CASE UNCHANGED repoInitVars
  BY <1>1, <1>3 DEF repoInitVars, DriftProblems, CallerRenderState, Baseline, CanonicalAlias, RenderCaller,
     RefsIn, IsCalleeDefinition
<1>4. CASE FleetNext /\ ~ Release /\ ~ UNCHANGED repoInitVars
  <2>1. RepoInitNext => initRun'.did # "released"
    <3> SUFFICES ASSUME RepoInitNext PROVE initRun'.did # "released"
      OBVIOUS
    <3>1. \A force, ww \in BOOLEAN, gates \in SUBSET OptIn, ref \in {Baseline, "master"} :
             Init_(force, ww, ww, gates, ref) => initRun'.did # "released"
      BY EndedIs DEF Init_
    <3>2. \A force \in BOOLEAN : InitCut(force, Baseline) => initRun'.did # "released"
      BY DEF InitCut, Ended, NoRun
    <3>4. \A force \in BOOLEAN : HookInstall(force) \/ HookUninstall(force)
                                   => initRun'.did # "released"
      BY HooksFrame
    <3>3. InitCheck \/ HookCheck \/ EditRepo => initRun'.did # "released"
      BY DEF InitCheck, HookCheck, EditRepo, Ended, NoRun
    <3>5. QED
      BY <1>4, <3>1, <3>2, <3>3, <3>4 DEF RepoInitNext
  <2>2. ~ RepoInitNext => initRun'.did # "released"
    <3>1. \A own, strict, allowed : CiAudit(own, strict, allowed) => initRun'.did # "released"
      BY DEF CiAudit, Ended, NoRun
    <3>2. \A far, strict, warnOnly : FleetScan(far, strict, warnOnly) => initRun'.did # "released"
      BY ScanFrame
    <3>3. CiAuditUnreadable => initRun'.did # "released"
      BY DEF CiAuditUnreadable, Ended, NoRun
    <3>4. Push => UNCHANGED repoInitVars
      BY DEF Push
    <3>5. QED
      BY <1>4, <3>1, <3>2, <3>3, <3>4 DEF FleetNext
  <2>3. QED
    BY <1>1, <2>1, <2>2
<1>5. QED
  BY <1>2, <1>3, <1>4 DEF fleetVars, repoInitVars

-----------------------------------------------------------------------------
(* The radar *)

\* A row on a name says what the scan has been told of it.
AnswersKept ==
    /\ DOMAIN asked = ProbeSet /\ \A p \in ProbeSet : DOMAIN asked[p] = RadarDeps
    /\ \A a \in rows : a.dep \in RadarDeps /\ a.probe \in ProbeSet =>
          /\ asked[a.probe][a.dep] # NotAsked
          /\ a.note = IF asked[a.probe][a.dep] = Unknown THEN "unknown" ELSE "drift"

LEMMA AnswersStep ==
    ASSUME AnswersKept, [RadarNext]_radarVars
    PROVE  AnswersKept'
<1> USE DEF AnswersKept
<1>1. CASE StartScan
  BY <1>1 DEF StartScan
<1>2. CASE ReadManifest
  <2>1. asked' = asked
    BY <1>2 DEF ReadManifest
  <2>2. rows' \subseteq rows \cup {Row(scanning, "manifest", "not found")}
    BY <1>2 DEF ReadManifest
  <2>3. Row(scanning, "manifest", "not found").dep = "manifest"
    BY DEF Row
  <2>4. QED
    BY <2>1, <2>2, <2>3, RadarAssumption
<1>3. CASE ProbeEnds
  BY <1>3 DEF ProbeEnds
<1>4. CASE RadarRefuses
  BY <1>4 DEF RadarRefuses
<1>5. CASE UpstreamMoves
  BY <1>5 DEF UpstreamMoves
<1>6. ASSUME NEW ref \in radarQueue.refs, NEW heard \in {Unknown} \cup Known, Compare(ref, heard)
      PROVE  AnswersKept'
  <2> DEFINE dep == ref[1] probe == ProbeAt(scanning)
  <2>1. /\ asked[probe][dep] # NotAsked => heard = asked[probe][dep]
        /\ asked' = [asked EXCEPT ![probe][dep] = heard]
        /\ rows' = rows \cup (IF heard = Unknown THEN {Row(scanning, dep, "unknown")}
                              ELSE IF heard > ref[2] THEN {Row(scanning, dep, "drift")} ELSE {})
    BY <1>6 DEF Compare
  <2>2. heard # NotAsked
    BY RadarAssumption DEF Known, Unknown
  <2>3. \A a \in rows' \ rows : /\ a.dep = dep /\ a.probe = probe
                                /\ a.note = IF heard = Unknown THEN "unknown" ELSE "drift"
    BY <2>1 DEF Row
  <2> HIDE DEF dep, probe
  <2>4. QED
    BY <2>1, <2>2, <2>3
<1>7. CASE UNCHANGED radarVars
  BY <1>7 DEF radarVars
<1>8. QED
  BY <1>1, <1>2, <1>3, <1>4, <1>5, <1>6, <1>7 DEF RadarNext

LEMMA RadarStart == RadarInit => AnswersKept
BY DEF RadarInit, AnswersKept

-----------------------------------------------------------------------------
(* Publishing: a crate whose turn is over is in the index, or it failed.    *)

CratesInv ==
    /\ indexed \subseteq uploaded /\ uploaded \subseteq Crates
    /\ publishing \in Seq(Crates)
    /\ at_crate # "none" => /\ publishing # <<>> /\ publishExit = "none"
                            /\ ~publishDry => Crates \subseteq indexed \cup failed \cup Range(publishing)
    /\ publishExit = "ok" /\ ~publishDry => Crates \subseteq indexed

\* Every order of the crates places all of them: as many places as crates.
LEMMA OrdersArePermutations ==
    ASSUME NEW order \in Orders
    PROVE  order \in Seq(Crates) /\ order # <<>> /\ Range(order) = Crates
<1> DEFINE n == Len(Names)
<1>1. /\ Names \in Seq(Crates) /\ Names # <<>> /\ n \in Nat /\ n > 0 /\ DOMAIN Names = 1..n
      /\ Names \in [1..n -> Crates]
  BY CratesAssumption DEF Crates
<1>2. order \in [1..n -> Crates] /\ IsInjective(order)
  BY <1>1 DEF Orders
<1>3. order \in Seq(Crates) /\ Len(order) = n
  BY <1>1, <1>2
<1>4. IsFiniteSet(1..n) /\ Cardinality(1..n) = n
  BY <1>1, FS_Interval
<1>5. Names \in Surjection(1..n, Crates) /\ Names \in Injection(1..n, Crates)
  BY <1>1, CratesAssumption DEF Surjection, Injection, Crates, Range
<1>6. IsFiniteSet(Crates) /\ Cardinality(Crates) = n
  BY <1>4, <1>5, FS_Surjection
<1>7. order \in Injection(1..n, Crates)
  BY <1>2 DEF Injection
<1>8. order \in Surjection(1..n, Crates)
  BY <1>4, <1>6, <1>7, FS_Injection
<1>9. Range(order) = Crates
  BY <1>2, <1>8 DEF Surjection, Range
<1>10. QED
  BY <1>1, <1>3, <1>9

LEMMA NextCrateStep ==
    ASSUME CratesInv, at_crate # "none", NEW given, NextCrate(given), publishDry' = publishDry,
           indexed' = indexed, uploaded \subseteq uploaded', uploaded' \subseteq Crates,
           publishDry \/ Head(publishing) \in indexed \cup given
    PROVE  CratesInv'
<1>1. publishing \in Seq(Crates) /\ publishing # <<>> /\ publishExit = "none"
  BY DEF CratesInv
<1>2. /\ Tail(publishing) \in Seq(Crates) /\ Len(Tail(publishing)) = Len(publishing) - 1
      /\ \A i \in 1..Len(Tail(publishing)) : Tail(publishing)[i] = publishing[i + 1]
      /\ Head(publishing) = publishing[1] /\ Len(publishing) \in Nat /\ Len(publishing) > 0
  BY <1>1, HeadTailProperties
<1>3. Range(publishing) \subseteq {Head(publishing)} \cup Range(Tail(publishing))
  <2>1. \A i \in DOMAIN publishing : i = 1 \/ (i - 1) \in DOMAIN Tail(publishing)
    BY <1>1, <1>2
  <2>2. \A i \in DOMAIN publishing : i # 1 => publishing[i] = Tail(publishing)[i - 1]
    BY <1>1, <1>2
  <2>3. QED
    BY <1>2, <2>1, <2>2 DEF Range
<1>4. ~publishDry => Crates \subseteq indexed \cup (failed \cup given) \cup Range(Tail(publishing))
  BY <1>3 DEF CratesInv
<1>5. CASE Len(publishing) = 1
  <2>1. Range(Tail(publishing)) = {}
    <3>1. \A s \in Seq(Crates) : Len(s) = 0 => Range(s) = {}
      BY LenProperties DEF Range
    <3>2. Len(Tail(publishing)) = 0
      BY <1>2, <1>5
    <3>3. QED
      BY <1>2, <3>1, <3>2
  <2>2. at_crate' = "none" /\ failed' = failed \cup given /\ publishing' = Tail(publishing)
        /\ (publishExit' = "ok" => failed' = {})
    BY <1>5 DEF NextCrate
  <2>3. QED
    BY <1>2, <1>4, <2>1, <2>2 DEF CratesInv
<1>6. CASE Len(publishing) # 1
  <2>1. at_crate' = "check" /\ failed' = failed \cup given /\ publishing' = Tail(publishing)
        /\ publishExit' = publishExit
    BY <1>6 DEF NextCrate
  <2>2. Tail(publishing) # <<>>
    BY <1>2, <1>6
  <2>3. QED
    BY <1>1, <1>2, <1>4, <2>1, <2>2 DEF CratesInv
<1>7. QED
  BY <1>5, <1>6

LEMMA CratesInvStep ==
    ASSUME CratesInv, [CratesNext]_cratesVars
    PROVE  CratesInv'
<1>1. CASE StartPublish
  <2>1. CASE publishing' = <<>> /\ at_crate' = "none" /\ publishExit' = "no metadata"
    BY <1>1, <2>1, EmptySeq DEF StartPublish, CratesInv
  <2>2. CASE \E order \in Orders : publishing' = order
             /\ at_crate' = "check" /\ publishExit' = "none"
    BY <1>1, <2>2, OrdersArePermutations DEF StartPublish, CratesInv
  <2>3. QED
    BY <1>1, <2>1, <2>2 DEF StartPublish
<1>2. CASE CheckVersion
  BY <1>2, NextCrateStep DEF CheckVersion, Stays, CratesInv
<1>3. CASE PublishOneDry
  BY <1>3, NextCrateStep DEF PublishOneDry, CratesInv
<1>4. CASE PublishOne
  <2>1. Head(publishing) \in Crates
    BY <1>4, HeadTailProperties DEF PublishOne, CratesInv
  <2>2. CASE Stays("wait")
    BY <1>4, <2>1, <2>2 DEF PublishOne, Stays, CratesInv
  <2>3. CASE NextCrate({Head(publishing)})
    BY <1>4, <2>1, <2>3, NextCrateStep DEF PublishOne, CratesInv
  <2>4. QED
    BY <1>4, <2>2, <2>3 DEF PublishOne
<1>5. CASE PublishFails
  BY <1>5, NextCrateStep DEF PublishFails, CratesInv
<1>6. CASE AlreadyUploaded
  BY <1>6 DEF AlreadyUploaded, Stays, CratesInv
<1>7. CASE WaitIndex
  BY <1>7, NextCrateStep DEF WaitIndex, CratesInv
<1>8. CASE \E n \in Crates : IndexShows(n)
  BY <1>8 DEF IndexShows, CratesInv
<1>9. CASE PublishKilled
  BY <1>9, EmptySeq DEF PublishKilled, CratesInv
<1>10. CASE UNCHANGED cratesVars
  BY <1>10 DEF cratesVars, CratesInv
<1>11. QED
  BY <1>1, <1>2, <1>3, <1>4, <1>5, <1>6, <1>7, <1>8, <1>9, <1>10 DEF CratesNext

-----------------------------------------------------------------------------
(* The notes of a release: of the history back from the head, the pages     *)
(* read so far hold neither the base nor anything below it.                 *)

\* The commits of the n pages after which the walk stands.
ReadBack(n) == (n - 1) * PAGE

NoteRuns == [on : {"idle", "walk", "write", "done", "error"}, tag : Releases, base : Nat,
             head : Nat, page : Nat, found : BOOLEAN, listed : SUBSET Commits,
             apply : BOOLEAN, publish : BOOLEAN, draft : BOOLEAN, start : Nat]

NotesTypes ==
    /\ tip \in Commits /\ tagged \in [Releases -> 0..tip]
    /\ notes \in NoteRuns
    /\ notes.on \in {"idle", "walk", "write", "done", "error"}
    /\ notes.page \in Nat \ {0} /\ notes.base \in 0..tip /\ notes.head \in 0..tip
    /\ notes.start \in 0..tip /\ notes.base <= notes.start

WalkSound ==
    notes.on = "walk" /\ notes.base # 0 =>
        /\ ~notes.found
        /\ notes.head # 0 =>
              /\ notes.base <= notes.head - ReadBack(notes.page) \/ notes.base > notes.head
              /\ notes.listed = {c \in Commits : c <= notes.head
                                                 /\ c > notes.head - ReadBack(notes.page)} \ direct
        /\ notes.head = 0 =>
              /\ notes.base <= tip - ReadBack(notes.page)
              /\ notes.listed \subseteq {c \in Commits : notes.base < c /\ c <= tip} \ direct
              /\ {c \in Commits : c > tip - ReadBack(notes.page) /\ c <= notes.start} \ direct
                    \subseteq notes.listed

NotesInv == NotesTypes /\ WalkSound /\ NotesWhole

LEMMA ReadBackIs ==
    ASSUME NEW n \in Nat \ {0}
    PROVE  /\ ReadBack(n) \in Nat /\ ReadBack(1) = 0
           /\ ReadBack(n + 1) = n * PAGE /\ ReadBack(n + 1) = ReadBack(n) + PAGE
           /\ PAGE \in Nat /\ PAGE > 0
<1>1. PAGE \in Nat /\ PAGE > 0
  BY ReleaseNotesAssumption
<1>2. n * PAGE = (n - 1) * PAGE + PAGE /\ (n - 1) * PAGE \in Nat
  BY <1>1
<1>3. (n + 1) - 1 = n /\ (1 - 1) * PAGE = 0
  BY <1>1
<1>4. QED
  BY <1>1, <1>2, <1>3 DEF ReadBack

LEMMA PreviousIs ==
    ASSUME NEW v \in Releases
    PROVE  ResolvePreviousTag(v) \in {0} \cup Releases
<1>1. v \in {1, 2}
  BY DEF Releases
<1>2. {u \in Releases : u < v /\ tagged[u] # 0} \in {{}, {1}}
  BY <1>1 DEF Releases
<1>3. QED
  BY <1>2 DEF ResolvePreviousTag, Releases

\* Each action leaves the run a record of the same fields.
LEMMA NoteRunsStep ==
    ASSUME NotesTypes, [NotesNext]_notesVars
    PROVE  notes' \in NoteRuns
<1> USE DEF NoteRuns
<1>0. /\ notes \in NoteRuns /\ tip \in Nat /\ MaxHistory \in Nat /\ tagged \in [Releases -> 0..tip]
      /\ notes.page \in Nat
  BY ReleaseNotesAssumption DEF NotesTypes, Commits
<1>1. NoNotes \in NoteRuns
  BY DEF NoNotes, Releases
<1>2. ASSUME NEW v \in Releases, NEW apply \in BOOLEAN, NEW publish \in BOOLEAN,
             NEW previous \in {0} \cup Releases, StartNotes(v, previous, apply, publish)
      PROVE  notes' \in NoteRuns
  <2> DEFINE mark == IF previous = 0 THEN 0 ELSE tagged[previous]
  <2>1. mark \in Nat /\ tagged[v] \in Nat
    BY <1>0
  <2> HIDE DEF mark
  <2>2. \/ notes' = [NoNotes EXCEPT !.on = "error"]
        \/ notes' = [NoNotes EXCEPT !.on = "walk", !.tag = v, !.base = mark, !.head = tagged[v],
                                    !.found = (mark = 0), !.apply = apply, !.publish = publish,
                                    !.start = tip]
    BY <1>2 DEF StartNotes, mark
  <2>3. CASE notes' = [NoNotes EXCEPT !.on = "error"]
    BY <1>1, <2>3
  <2>4. CASE notes' = [NoNotes EXCEPT !.on = "walk", !.tag = v, !.base = mark, !.head = tagged[v],
                                      !.found = (mark = 0), !.apply = apply, !.publish = publish,
                                      !.start = tip]
    BY <1>0, <2>1, <2>4 DEF NoNotes
  <2>5. QED
    BY <2>2, <2>3, <2>4
<1>3. CASE WalkPage
  <2>1. PICK S \in SUBSET Commits, b \in BOOLEAN, d \in BOOLEAN,
             o \in {"walk", "error", "write", "done"} :
           notes' = [notes EXCEPT !.listed = @ \cup S, !.found = b, !.page = @ + 1, !.draft = d, !.on = o]
    <3> DEFINE from == IF notes.head = 0 THEN tip ELSE notes.head
               pg   == PageOf(from, notes.page)
               S    == AboveBase(pg, notes.base) \ direct
               o    == IF ~EndsWalk(pg) THEN "walk"
                       ELSE IF ~BaseFound(pg) THEN "error"
                       ELSE IF notes.apply THEN "write" ELSE "done"
    <3>1. S \in SUBSET Commits
      BY DEF AboveBase, PageOf
    <3>2. BaseFound(pg) \in BOOLEAN /\ (releases[notes.tag] = NoRelease) \in BOOLEAN
          /\ o \in {"walk", "error", "write", "done"}
      BY <1>0 DEF BaseFound
    <3>3. notes' = [notes EXCEPT !.listed = @ \cup S, !.found = BaseFound(pg), !.page = @ + 1,
                                 !.draft = releases[notes.tag] = NoRelease, !.on = o]
      BY <1>3 DEF WalkPage
    <3> HIDE DEF S, o, pg
    <3>4. QED
      BY <3>1, <3>2, <3>3
  <2>2. notes.listed \cup S \in SUBSET Commits /\ notes.page + 1 \in Nat
    BY <1>0, <2>1
  <2> DEFINE wide == notes.listed \cup S
             next == notes.page + 1
  <2>3. notes' = [notes EXCEPT !.listed = wide, !.found = b, !.page = next, !.draft = d, !.on = o]
    BY <2>1
  <2> HIDE DEF wide, next
  <2>4. QED
    BY <1>0, <2>1, <2>2, <2>3 DEF wide, next
<1>4. CASE UpsertRelease \/ NotesFail
  BY <1>0, <1>4 DEF UpsertRelease, NotesFail
<1>5. CASE EditHistory \/ UNCHANGED notesVars
  BY <1>0, <1>5 DEF EditHistory, notesVars
<1>6. QED
  BY <1>2, <1>3, <1>4, <1>5, PreviousIs DEF NotesNext

LEMMA WalkPageStep ==
    ASSUME NotesInv, WalkPage
    PROVE  NotesInv'
<1> DEFINE from == IF notes.head = 0 THEN tip ELSE notes.head
           pg == PageOf(from, notes.page)
           back == ReadBack(notes.page)
<1>1. /\ tip \in Commits /\ tip \in Nat /\ from \in Commits /\ from \in Nat /\ notes.page \in Nat \ {0} /\ notes.base \in 0..tip
      /\ notes.head \in 0..tip /\ notes.on = "walk" /\ notes.start \in 0..tip
      /\ UNCHANGED <<tip, direct, tagged>> /\ MaxHistory \in Nat
      /\ notes.base # 0 => notes.base \in Commits
  BY ReleaseNotesAssumption DEF NotesInv, NotesTypes, WalkPage, Commits
<1>2. /\ notes'.base = notes.base /\ notes'.head = notes.head /\ notes'.page = notes.page + 1
      /\ notes'.start = notes.start
      /\ notes'.listed = notes.listed \cup (AboveBase(pg, notes.base) \ direct)
      /\ notes'.found = BaseFound(pg)
      /\ notes'.on \in {"walk", "error", "write", "done"}
      /\ notes'.on = "walk" <=> ~ EndsWalk(pg)
      /\ notes'.on \in {"write", "done"} => BaseFound(pg)
  <2> HIDE DEF pg
  <2>1. notes \in NoteRuns
    BY DEF NotesInv, NotesTypes
  <2>2. PICK o \in {"walk", "error", "write", "done"}, d \in BOOLEAN :
           /\ notes' = [notes EXCEPT !.listed = @ \cup (AboveBase(pg, notes.base) \ direct),
                                     !.found = BaseFound(pg), !.page = @ + 1, !.draft = d, !.on = o]
           /\ o = "walk" <=> ~ EndsWalk(pg)
           /\ o \in {"write", "done"} => BaseFound(pg)
    BY DEF WalkPage, pg
  <2>3. QED
    BY <2>1, <2>2 DEF NoteRuns
<1>3. /\ back \in Nat /\ ReadBack(notes.page + 1) = back + PAGE /\ PAGE \in Nat /\ PAGE > 0
      /\ ReadBack(notes'.page) = back + PAGE
  BY <1>1, <1>2, ReadBackIs
<1>4. pg = {c \in Commits : c <= from - back /\ c > from - (back + PAGE)}
  BY <1>1, ReadBackIs DEF PageOf, ReadBack
<1>5. NotesTypes'
  <2>1. notes' \in NoteRuns
    BY NoteRunsStep DEF NotesInv, NotesNext
  <2>2. QED
    BY <1>1, <1>2, <2>1 DEF NotesInv, NotesTypes
<1>6. CASE notes.base = 0
  BY <1>2, <1>5, <1>6 DEF NotesInv, WalkSound, NotesWhole
<1>7. CASE notes.base # 0
  <2> HIDE DEF pg, back, from
  <2>1. ~notes.found /\ (BaseFound(pg) <=> notes.base \in pg)
    BY <1>1, <1>7 DEF NotesInv, WalkSound, BaseFound
  <2>2. CASE notes.head # 0
    <3>1. from = notes.head
      BY <2>2 DEF from
    <3>2. /\ notes.base <= from - back \/ notes.base > from
          /\ notes.listed = {c \in Commits : c <= from /\ c > from - back} \ direct
      BY <1>1, <1>7, <2>2, <3>1 DEF NotesInv, WalkSound, back
    <3>3. CASE notes.base \in pg
      <4>1. notes'.listed = {c \in Commits : notes.base < c /\ c <= from} \ direct
        BY <1>1, <1>2, <1>3, <1>4, <3>2, <3>3 DEF AboveBase, Commits
      <4>2. notes'.on # "walk"
        BY <1>2, <2>1, <3>3 DEF EndsWalk
      <4>3. QED
        BY <1>1, <1>2, <1>5, <2>2, <3>1, <4>1, <4>2 DEF NotesInv, WalkSound, NotesWhole
    <3>4. CASE notes.base \notin pg
      <4>1. notes.base <= from - (back + PAGE) \/ notes.base > from
        BY <1>1, <1>3, <1>4, <1>7, <3>2, <3>4
      <4>2. notes'.listed = {c \in Commits : c <= from /\ c > from - (back + PAGE)} \ direct
        BY <1>1, <1>2, <1>3, <1>4, <3>2, <3>4 DEF AboveBase, Commits
      <4>3. notes'.on \notin {"write", "done"} /\ notes'.found = FALSE
        BY <1>2, <2>1, <3>4
      <4>4. QED
        BY <1>1, <1>2, <1>3, <1>5, <2>2, <3>1, <4>1, <4>2, <4>3 DEF NotesInv, WalkSound, NotesWhole
    <3>5. QED
      BY <3>3, <3>4
  <2>3. CASE notes.head = 0
    <3>1. from = tip
      BY <2>3 DEF from
    <3>2. /\ notes.base <= tip - back
          /\ notes.listed \subseteq {c \in Commits : notes.base < c /\ c <= tip} \ direct
          /\ {c \in Commits : c > tip - back /\ c <= notes.start} \ direct \subseteq notes.listed
      BY <1>1, <1>7, <2>3 DEF NotesInv, WalkSound, back
    <3>3. notes.base \notin pg => notes.base <= tip - (back + PAGE)
      BY <1>1, <1>3, <1>4, <1>7, <3>1, <3>2
    <3>4. notes'.listed \subseteq {c \in Commits : notes.base < c /\ c <= tip} \ direct
      BY <1>1, <1>2, <1>3, <1>4, <3>1, <3>2, <3>3 DEF AboveBase, Commits
    <3>5. notes'.on = "walk" => notes.base \notin pg /\ notes'.found = FALSE
      BY <1>2, <2>1 DEF EndsWalk
    <3>6. notes.base \notin pg =>
             {c \in Commits : c > tip - (back + PAGE) /\ c <= notes.start} \ direct \subseteq notes'.listed
      BY <1>1, <1>2, <1>3, <1>4, <3>1, <3>2 DEF AboveBase, Commits
    <3>7. notes.base \in pg =>
             {c \in Commits : notes.base < c /\ c <= notes.start} \ direct \subseteq notes'.listed
      BY <1>1, <1>2, <1>3, <1>4, <3>1, <3>2 DEF AboveBase, Commits
    <3>8. notes'.on \in {"write", "done"} => notes.base \in pg
      BY <1>2, <2>1
    <3>9. WalkSound' /\ NotesWhole'
      BY <1>1, <1>2, <1>3, <2>3, <3>3, <3>4, <3>5, <3>6, <3>7, <3>8 DEF WalkSound, NotesWhole
    <3>10. QED
      BY <1>5, <3>9 DEF NotesInv
  <2>4. QED
    BY <2>2, <2>3
<1>8. QED
  BY <1>6, <1>7

\* The branch only moves on, and the subject of a commit is what it was.
LEMMA EditHistoryStep ==
    ASSUME NotesInv, EditHistory
    PROVE  NotesInv'
<1>1. /\ notes' = notes /\ tip \in Commits /\ tip' \in Commits /\ tip <= tip'
      /\ \A c \in Commits : c <= tip => (c \in direct' <=> c \in direct)
  BY ReleaseNotesAssumption DEF EditHistory, NotesInv, NotesTypes, Commits
<1>2. tagged' \in [Releases -> 0..tip']
  BY <1>1 DEF EditHistory, NotesInv, NotesTypes, Commits
<1>3. /\ notes.on \in {"idle", "walk", "write", "done", "error"} /\ notes.page \in Nat \ {0}
      /\ notes.base \in 0..tip /\ notes.head \in 0..tip
      /\ notes.start \in 0..tip /\ notes.base <= notes.start
      /\ notes \in NoteRuns
  BY DEF NotesInv, NotesTypes
<1>4. NotesTypes'
  BY <1>1, <1>2, <1>3 DEF NotesTypes, Commits
<1>5. \A S \in SUBSET Commits :
         (\A c \in S : c <= tip) => S \ direct' = S \ direct
  BY <1>1
<1>6. WalkSound'
  <2>1. SUFFICES ASSUME notes.on = "walk", notes.base # 0 PROVE WalkSound'
    BY <1>1 DEF WalkSound
  <2>2. ReadBack(notes.page) \in Nat
    BY <1>3, ReadBackIs
  <2>3. CASE notes.head # 0
    <3> DEFINE R == {c \in Commits : c <= notes.head /\ c > notes.head - ReadBack(notes.page)}
    <3>1. R \ direct' = R \ direct
      BY <1>1, <1>3, <1>5 DEF Commits
    <3>2. QED
      BY <1>1, <2>1, <2>3, <3>1 DEF WalkSound, NotesInv
  <2>4. CASE notes.head = 0
    <3>1. {c \in Commits : notes.base < c /\ c <= tip} \ direct
             \subseteq {c \in Commits : notes.base < c /\ c <= tip'} \ direct'
      BY <1>1 DEF Commits
    <3>2. notes.base <= tip' - ReadBack(notes.page)
      BY <1>1, <1>3, <2>1, <2>2, <2>4 DEF WalkSound, NotesInv, Commits
    <3>3. {c \in Commits : c > tip' - ReadBack(notes.page) /\ c <= notes.start} \ direct'
             \subseteq {c \in Commits : c > tip - ReadBack(notes.page) /\ c <= notes.start} \ direct
      BY <1>1, <1>3, <2>2 DEF Commits
    <3>4. QED
      BY <1>1, <2>1, <2>4, <3>1, <3>2, <3>3 DEF WalkSound, NotesInv
  <2>5. QED
    BY <2>3, <2>4
<1>7. NotesWhole'
  <2>1. SUFFICES ASSUME notes.on \in {"write", "done"}, notes.base # 0 PROVE NotesWhole'
    BY <1>1 DEF NotesWhole
  <2> DEFINE B(to) == {c \in Commits : notes.base < c /\ c <= to}
  <2>2. B(notes.head) \ direct' = B(notes.head) \ direct
    BY <1>1, <1>3, <1>5 DEF Commits
  <2>3. B(tip) \ direct \subseteq B(tip') \ direct'
    BY <1>1 DEF Commits
  <2>4. B(notes.start) \ direct' = B(notes.start) \ direct
    BY <1>1, <1>3, <1>5 DEF Commits
  <2>5. QED
    BY <1>1, <2>1, <2>2, <2>3, <2>4 DEF NotesWhole, NotesInv
<1>8. QED
  BY <1>4, <1>6, <1>7 DEF NotesInv

LEMMA NotesInvStep ==
    ASSUME NotesInv, [NotesNext]_notesVars
    PROVE  NotesInv'
<1>0. notes' \in NoteRuns
  BY NoteRunsStep DEF NotesInv
<1>1. ASSUME NEW v \in Releases, NEW apply \in BOOLEAN, NEW publish \in BOOLEAN,
             NEW previous \in {0} \cup Releases, StartNotes(v, previous, apply, publish)
      PROVE  NotesInv'
  <2> DEFINE mark == IF previous = 0 THEN 0 ELSE tagged[previous]
  <2>1. /\ tip \in Commits /\ tagged \in [Releases -> 0..tip] /\ UNCHANGED <<tip, direct, tagged>>
        /\ tip \in Nat /\ MaxHistory \in Nat
    BY <1>1, ReleaseNotesAssumption DEF StartNotes, NotesInv, NotesTypes, Commits
  <2>2. mark \in 0..tip /\ tagged[v] \in 0..tip
    BY <2>1
  <2> HIDE DEF mark
  <2>3. \/ notes' = [NoNotes EXCEPT !.on = "error"]
        \/ notes' = [NoNotes EXCEPT !.on = "walk", !.tag = v, !.base = mark, !.head = tagged[v],
                                    !.found = (mark = 0), !.apply = apply, !.publish = publish,
                                    !.start = tip]
    BY <1>1 DEF StartNotes, mark
  <2>4. CASE /\ notes'.on = "error" /\ notes'.page = 1 /\ notes'.base = 0 /\ notes'.head = 0
             /\ notes'.start = 0
    BY <1>0, <2>1, <2>4 DEF NotesInv, NotesTypes, WalkSound, NotesWhole
  <2>5. CASE /\ notes'.on = "walk" /\ notes'.page = 1 /\ notes'.base = mark /\ notes'.head = tagged[v]
             /\ notes'.found = (mark = 0) /\ notes'.listed = {} /\ notes'.start = tip
    <3>1. ReadBack(1) = 0
      BY ReadBackIs
    <3>2. {c \in Commits : c <= tagged[v] /\ c > tagged[v] - 0} = {}
      BY <2>1, <2>2 DEF Commits
    <3>3. WalkSound'
      <4>1. SUFFICES ASSUME mark # 0 PROVE WalkSound'
        BY <2>5 DEF WalkSound
      <4>2. tagged[v] # 0 =>
               /\ mark <= tagged[v] - ReadBack(1) \/ mark > tagged[v]
               /\ {} = {c \in Commits : c <= tagged[v] /\ c > tagged[v] - ReadBack(1)} \ direct
        BY <2>1, <2>2, <3>1, <3>2
      <4>3. mark <= tip - ReadBack(1)
        BY <2>1, <2>2, <3>1
      <4>4. {c \in Commits : c > tip - ReadBack(1) /\ c <= tip} = {}
        BY <2>1, <3>1 DEF Commits
      <4>5. QED
        BY <2>1, <2>5, <4>1, <4>2, <4>3, <4>4 DEF WalkSound
    <3>4. QED
      BY <1>0, <2>1, <2>2, <2>5, <3>3 DEF NotesInv, NotesTypes, NotesWhole
  <2>6. QED
    BY <2>3, <2>4, <2>5 DEF NoNotes
<1>2. CASE WalkPage
  BY <1>2, WalkPageStep
<1>3. CASE UpsertRelease
  <2>1. /\ notes.on = "write" /\ notes'.on \in {"done", "error"} /\ UNCHANGED <<tip, direct, tagged>>
        /\ notes'.page = notes.page /\ notes'.base = notes.base /\ notes'.head = notes.head
        /\ notes'.listed = notes.listed /\ notes'.start = notes.start
    BY <1>3 DEF UpsertRelease, NotesInv, NotesTypes, NoteRuns
  <2>2. QED
    BY <1>0, <2>1 DEF NotesInv, NotesTypes, WalkSound, NotesWhole
<1>4. CASE NotesFail
  <2>1. /\ notes'.on = "error" /\ UNCHANGED <<tip, direct, tagged>>
        /\ notes'.page = notes.page /\ notes'.base = notes.base /\ notes'.head = notes.head
        /\ notes'.start = notes.start
    BY <1>4 DEF NotesFail, NotesInv, NotesTypes, NoteRuns
  <2>2. QED
    BY <1>0, <2>1 DEF NotesInv, NotesTypes, WalkSound, NotesWhole
<1>5. CASE EditHistory
  BY <1>5, EditHistoryStep
<1>6. CASE UNCHANGED notesVars
  BY <1>6 DEF notesVars, NotesInv, NotesTypes, WalkSound, NotesWhole
<1>7. QED
  BY <1>1, <1>2, <1>3, <1>4, <1>5, <1>6, PreviousIs DEF NotesNext

LEMMA CratesStart == CratesInit => CratesInv
BY EmptySeq DEF CratesInit, CratesInv

LEMMA NotesStart ==
    ASSUME NotesInit
    PROVE  NotesInv
<1>1. tip = MaxHistory - 1 /\ MaxHistory \in Nat /\ MaxHistory >= 3
  BY ReleaseNotesAssumption DEF NotesInit
<1>2. tip \in Commits /\ tagged \in [Releases -> 0..tip]
  BY <1>1 DEF NotesInit, Commits
<1>3. notes = NoNotes /\ NoNotes \in NoteRuns
  BY DEF NotesInit, NoNotes, NoteRuns, Releases
<1>4. /\ notes.on = "idle" /\ notes.page = 1 /\ notes.base = 0 /\ notes.head = 0
      /\ notes.start = 0
  BY <1>3 DEF NoNotes
<1>5. QED
  BY <1>1, <1>2, <1>3, <1>4 DEF NotesInv, NotesTypes, WalkSound, NotesWhole

-----------------------------------------------------------------------------
(* p0-gate: what it read, it can read still.                                *)

LedgersRead ==
    \A place \in LedgerPlaces :
        Usable_(ledgers[place]) =>
            \A id \in DOMAIN ledgers[place] : ledgers[place][id].status \in {"open", "closed"}

P0Inv == DOMAIN ledgers = LedgerPlaces /\ LedgersRead /\ ClearMeansAnswered

LEMMA P0Start ==
    ASSUME P0Init
    PROVE  P0Inv
<1>1. PICK scope \in (SUBSET P0Repos) \ {{}} :
         ledgers = [p \in LedgerPlaces |-> IF p = "bundled"
                      THEN [id \in P0Findings |-> [status |-> "open", scope |-> scope]] ELSE NoP0Ledger]
  BY DEF P0Init
<1>2. LedgersRead
  BY <1>1 DEF LedgersRead, Usable_
<1>3. ClearMeansAnswered
  BY DEF P0Init, NotGated, ClearMeansAnswered
<1>4. QED
  BY <1>1, <1>2, <1>3 DEF P0Inv

LEMMA P0Step ==
    ASSUME P0Inv, [P0Next]_p0Vars
    PROVE  P0Inv'
<1>1. ASSUME NEW repos \in SUBSET P0Repos, NEW named \in SUBSET P0Findings, NEW words \in AckWords,
             NEW readable \in BOOLEAN, RunP0Gate(repos, named, words, readable)
      PROVE  P0Inv'
  <2>1. UNCHANGED <<ledgers, pinnedByEnv>> /\ InForce' = InForce
    BY <1>1 DEF RunP0Gate, InForce, ResolveLedgerPath
  <2>2. ASSUME p0Verdict'.exit = 0
        PROVE  /\ Usable_(InForce)
               /\ \A id \in DOMAIN InForce :
                     \/ InForce[id].status = "closed"
                     \/ InForce[id].scope \cap p0Verdict'.repos = {}
                     \/ id \in p0Verdict'.written
    <3>1. Usable_(InForce) /\ repos # {} /\ readable
      BY <1>1, <2>2 DEF RunP0Gate
    <3>2. p0Verdict' = LET blocked == OpenFor(InForce, repos) \ CollectAcks(named, words)
                       IN  [exit |-> IF blocked # {} THEN 1 ELSE 0, repos |-> repos,
                            written |-> named \cup {words[i] : i \in 1..Len(words)}]
      BY <1>1, <3>1 DEF RunP0Gate
    <3>3. OpenFor(InForce, repos) \subseteq CollectAcks(named, words)
      BY <2>2, <3>2
    <3>4. /\ p0Verdict'.repos = repos
          /\ p0Verdict'.written = named \cup {words[i] : i \in 1..Len(words)}
      BY <3>2
    <3>5. CollectAcks(named, words) \subseteq p0Verdict'.written
      BY <3>4 DEF CollectAcks, ParseAckMarkers
    <3>6. \A id \in DOMAIN InForce : InForce[id].status \in {"open", "closed"}
      BY <3>1 DEF P0Inv, LedgersRead, InForce, ResolveLedgerPath, LedgerPlaces
    <3>7. QED
      BY <3>1, <3>3, <3>4, <3>5, <3>6 DEF OpenFor
  <2>3. ClearMeansAnswered'
    BY <2>1, <2>2 DEF ClearMeansAnswered
  <2>4. QED
    BY <2>1, <2>3 DEF P0Inv, LedgersRead
<1>2. CASE EditLedger
  <2>1. p0Verdict' = NotGated
    BY <1>2 DEF EditLedger
  <2>2. ClearMeansAnswered'
    BY <2>1 DEF ClearMeansAnswered, NotGated
  <2>3. DOMAIN ledgers' = LedgerPlaces /\ LedgersRead'
    <3>1. CASE UNCHANGED ledgers
      BY <3>1 DEF P0Inv, LedgersRead
    <3>2. ASSUME NEW place \in LedgerPlaces, NEW ledger \in Ledgers \cup {BadLedger, NoP0Ledger},
                 ledgers' = [ledgers EXCEPT ![place] = ledger]
          PROVE  DOMAIN ledgers' = LedgerPlaces /\ LedgersRead'
      <4>1. Usable_(ledger) => \A id \in DOMAIN ledger : ledger[id].status \in {"open", "closed"}
        <5>1. SUFFICES ASSUME ledger \in Ledgers, NEW id \in DOMAIN ledger
                       PROVE  ledger[id].status \in {"open", "closed"}
          BY DEF Usable_
        <5>2. PICK ids \in (SUBSET P0Findings) \ {{}} : ledger \in [ids -> P0Entries]
          BY <5>1 DEF Ledgers
        <5>3. ledger[id] \in P0Entries
          BY <5>1, <5>2
        <5>4. QED
          BY <5>3 DEF P0Entries
      <4>2. /\ DOMAIN ledgers' = LedgerPlaces /\ ledgers'[place] = ledger
            /\ \A p \in LedgerPlaces \ {place} : ledgers'[p] = ledgers[p]
        BY <3>2 DEF P0Inv
      <4>3. QED
        BY <4>1, <4>2 DEF P0Inv, LedgersRead, Usable_
    <3>3. QED
      BY <1>2, <3>1, <3>2 DEF EditLedger
  <2>4. QED
    BY <2>2, <2>3 DEF P0Inv
<1>3. CASE UNCHANGED p0Vars
  BY <1>3 DEF p0Vars, P0Inv, LedgersRead, ClearMeansAnswered, InForce, ResolveLedgerPath
<1>4. QED
  BY <1>1, <1>2, <1>3 DEF P0Next

-----------------------------------------------------------------------------
(* The credential sweep: until somebody writes to the trees, a literal that *)
(* was to be seen is found, or still ahead, or a skip was listed.           *)

NothingPassedOver ==
    gateReport.on /\ gateReport.strict /\ treeEdits = 0 =>
        \/ gateReport.skipped # {}
        \/ \A path \in gateReport.meant :
              KindOf(path) = "literal" => path \in gateReport.todo \cup gateReport.found

SweepInv ==
    /\ treeEdits \in Nat
    /\ DOMAIN gateReport = DOMAIN EmptySweep
    /\ checkouts \in [SweepRepos -> CheckoutState]
    /\ NothingPassedOver /\ StrictGreenMissesNothing

LEMMA SweepStart ==
    ASSUME SweepInit
    PROVE  SweepInv
<1>1. PICK git \in [SweepRepos -> DotGit] :
         checkouts = [r \in SweepRepos |-> [git |-> git[r], config |-> "plain", ours |-> TRUE]]
  BY DEF SweepInit
<1>2. checkouts \in [SweepRepos -> CheckoutState]
  BY <1>1 DEF CheckoutState
<1>3. QED
  BY <1>2 DEF SweepInit, SweepInv, NothingPassedOver, StrictGreenMissesNothing, EmptySweep

LEMMA SweepStep ==
    ASSUME SweepInv, [SweepNext]_sweepVars
    PROVE  SweepInv'
<1>1. CASE StartSweep
  <2>1. UNCHANGED <<checkouts, trees, treeEdits>>
    BY <1>1 DEF StartSweep
  <2>2. PICK all \in BOOLEAN, one \in SweepRepos, configs \in BOOLEAN, literals \in BOOLEAN,
             strict \in BOOLEAN :
          LET targets == IF all THEN {r \in SweepRepos : IsLangyoRepo(r)} ELSE {one}
          IN  IF targets = {} \/ (~configs /\ ~literals) THEN gateReport' = EmptySweep
              ELSE gateReport' = [EmptySweep EXCEPT
                     !.on = TRUE, !.strict = strict,
                     !.meant = (IF all THEN {r \in SweepRepos : Langyo(r)} ELSE {one})
                               \X (IF literals THEN SweepPaths ELSE {}),
                     !.skipped = (IF all THEN DiscoverSkips ELSE {})
                                 \cup (IF configs THEN UNION {GitSkips(r) : r \in targets} ELSE {}),
                     !.todo = (IF configs THEN UNION {GitConfigPaths(r) : r \in targets} ELSE {})
                              \cup (IF literals THEN targets \X SweepPaths ELSE {})]
    BY <1>1 DEF StartSweep
  <2> DEFINE targets == IF all THEN {r \in SweepRepos : IsLangyoRepo(r)} ELSE {one}
  <2>3. CASE targets = {} \/ (~configs /\ ~literals)
    <3>1. gateReport' = EmptySweep
      BY <2>2, <2>3
    <3>2. QED
      BY <2>1, <3>1 DEF SweepInv, NothingPassedOver, StrictGreenMissesNothing, EmptySweep
  <2>4. CASE ~(targets = {} \/ (~configs /\ ~literals))
    <3> DEFINE meant == (IF all THEN {r \in SweepRepos : Langyo(r)} ELSE {one})
                        \X (IF literals THEN SweepPaths ELSE {})
               skips == (IF all THEN DiscoverSkips ELSE {})
                        \cup (IF configs THEN UNION {GitSkips(r) : r \in targets} ELSE {})
               ahead == (IF configs THEN UNION {GitConfigPaths(r) : r \in targets} ELSE {})
                        \cup (IF literals THEN targets \X SweepPaths ELSE {})
    <3>a. gateReport' = [EmptySweep EXCEPT !.on = TRUE, !.strict = strict, !.meant = meant,
                                           !.skipped = skips, !.todo = ahead]
      BY <2>2, <2>4
    <3>b. skips = (IF all THEN DiscoverSkips ELSE {}) \cup skips
      OBVIOUS
    <3>c. ahead = (IF literals THEN targets \X SweepPaths ELSE {}) \cup ahead
      OBVIOUS
    <3>d. ASSUME NEW m, NEW s, NEW t, gateReport' = [EmptySweep EXCEPT !.on = TRUE, !.strict = strict,
                                           !.meant = m, !.skipped = s, !.todo = t]
          PROVE  /\ DOMAIN gateReport' = DOMAIN EmptySweep /\ gateReport'.on
                 /\ gateReport'.meant = m /\ gateReport'.skipped = s /\ gateReport'.todo = t
      BY <3>d DEF EmptySweep
    <3> HIDE DEF meant, skips, ahead, targets
    <3>e. /\ DOMAIN gateReport' = DOMAIN EmptySweep /\ gateReport'.on
          /\ gateReport'.meant = meant /\ gateReport'.skipped = skips /\ gateReport'.todo = ahead
      BY <3>a, <3>d
    <3>1. /\ DOMAIN gateReport' = DOMAIN EmptySweep
          /\ gateReport'.on
          /\ gateReport'.meant = (IF all THEN {r \in SweepRepos : Langyo(r)} ELSE {one})
                                 \X (IF literals THEN SweepPaths ELSE {})
          /\ (IF all THEN DiscoverSkips ELSE {}) \subseteq gateReport'.skipped
          /\ (IF literals THEN targets \X SweepPaths ELSE {}) \subseteq gateReport'.todo
      <4>1. /\ (IF all THEN DiscoverSkips ELSE {}) \subseteq skips
            /\ (IF literals THEN targets \X SweepPaths ELSE {}) \subseteq ahead
        BY <3>b, <3>c
      <4>2. QED
        BY <3>e, <4>1 DEF meant
    <3>2. ASSUME NEW path \in gateReport'.meant, gateReport'.skipped = {}
          PROVE  path \in gateReport'.todo
      <4>1. PICK r \in SweepRepos, p \in SweepPaths : path = <<r, p>>
        BY <3>1, <3>2
      <4>2. literals /\ (all => Langyo(r)) /\ (~all => r = one)
        BY <3>1, <3>2, <4>1
      <4>3. all => IsLangyoRepo(r)
        <5>1. SUFFICES ASSUME all, ~IsLangyoRepo(r) PROVE FALSE
          OBVIOUS
        <5>2. DiscoverSkips = {}
          BY <3>1, <3>2, <5>1
        <5>3. /\ checkouts[r].git \in DotGit
              /\ checkouts[r].config \in {"plain", "literal", "unreadable", "gone"}
          BY DEF SweepInv, CheckoutState
        <5>4. checkouts[r].git \notin {"badPointer", "locked"}
          BY <5>2 DEF DiscoverSkips
        <5>5. ~(checkouts[r].git \in {"dir", "pointer"} /\ checkouts[r].config = "unreadable")
          BY <5>2 DEF DiscoverSkips
        <5>6. QED
          BY <4>2, <5>1, <5>3, <5>4, <5>5 DEF Langyo, IsLangyoRepo, DotGit
      <4>4. r \in targets
        BY <4>2, <4>3 DEF targets
      <4>5. QED
        BY <3>1, <4>1, <4>2, <4>4
    <3>3. NothingPassedOver' /\ StrictGreenMissesNothing'
      BY <3>1, <3>2 DEF NothingPassedOver, StrictGreenMissesNothing
    <3>4. QED
      BY <2>1, <3>1, <3>3 DEF SweepInv
  <2>5. QED
    BY <2>3, <2>4
<1>2. ASSUME NEW path \in gateReport.todo, SweepPath(path)
      PROVE  SweepInv'
  <2>1. /\ gateReport.on /\ UNCHANGED <<checkouts, trees, treeEdits>>
        /\ gateReport'.on /\ DOMAIN gateReport' = DOMAIN EmptySweep
        /\ gateReport'.meant = gateReport.meant /\ gateReport'.strict = gateReport.strict
        /\ gateReport.skipped \subseteq gateReport'.skipped
        /\ gateReport.found \subseteq gateReport'.found
        /\ gateReport'.todo = gateReport.todo \ {path}
    BY <1>2 DEF SweepPath, SweepInv, EmptySweep
  <2>2. KindOf(path) = "literal" => path \in gateReport'.found
    BY <1>2 DEF SweepPath, SweepInv, EmptySweep
  <2>3. \A p : KindOf(p)' = KindOf(p)
    BY <2>1 DEF KindOf
  <2>4. NothingPassedOver' /\ StrictGreenMissesNothing'
    BY <2>1, <2>2, <2>3 DEF SweepInv, NothingPassedOver, StrictGreenMissesNothing
  <2>5. QED
    BY <2>1, <2>4 DEF SweepInv
<1>3. CASE EndSweep
  <2>1. /\ gateReport.on /\ gateReport.todo = {} /\ UNCHANGED <<checkouts, trees, treeEdits>>
        /\ ~gateReport'.on /\ DOMAIN gateReport' = DOMAIN EmptySweep
        /\ gateReport'.meant = gateReport.meant /\ gateReport'.strict = gateReport.strict
    BY <1>3 DEF EndSweep, SweepInv, EmptySweep
  <2>2. gateReport'.exit = 0 /\ gateReport.strict => gateReport.found = {} /\ gateReport.skipped = {}
    BY <1>3 DEF EndSweep, SweepInv, EmptySweep
  <2>3. \A p : KindOf(p)' = KindOf(p)
    BY <2>1 DEF KindOf
  <2>4. NothingPassedOver' /\ StrictGreenMissesNothing'
    BY <2>1, <2>2, <2>3 DEF SweepInv, NothingPassedOver, StrictGreenMissesNothing
  <2>5. QED
    BY <2>1, <2>4 DEF SweepInv
<1>4. CASE EditTree
  <2>1. treeEdits' \in Nat /\ treeEdits' # 0 /\ gateReport' = gateReport
    BY <1>4 DEF EditTree, SweepInv
  <2>2. checkouts' \in [SweepRepos -> CheckoutState]
    <3>1. ASSUME NEW r \in SweepRepos, NEW c \in {"plain", "literal", "unreadable", "gone"}
          PROVE  [checkouts EXCEPT ![r].config = c] \in [SweepRepos -> CheckoutState]
      <4>1. checkouts[r] \in CheckoutState
        BY DEF SweepInv
      <4>2. [checkouts[r] EXCEPT !.config = c] \in CheckoutState
        BY <4>1 DEF CheckoutState
      <4>3. QED
        BY <4>2 DEF SweepInv
    <3>2. CASE UNCHANGED checkouts
      BY <3>2 DEF SweepInv
    <3>3. CASE \E r \in SweepRepos, c \in {"plain", "literal", "unreadable", "gone"} :
                  checkouts' = [checkouts EXCEPT ![r].config = c]
      <4>1. PICK r \in SweepRepos, c \in {"plain", "literal", "unreadable", "gone"} :
               checkouts' = [checkouts EXCEPT ![r].config = c]
        BY <3>3
      <4>2. QED
        BY <3>1, <4>1
    <3>4. QED
      BY <1>4, <3>2, <3>3 DEF EditTree
  <2>3. QED
    BY <2>1, <2>2 DEF SweepInv, NothingPassedOver, StrictGreenMissesNothing
<1>5. CASE UNCHANGED sweepVars
  BY <1>5 DEF sweepVars, SweepInv, NothingPassedOver, StrictGreenMissesNothing, KindOf
<1>6. QED
  BY <1>1, <1>2, <1>3, <1>4, <1>5 DEF SweepNext

-----------------------------------------------------------------------------
(* The audits: each looks at what it vouches for in the step of its verdict. *)

\* A file in which a ref is read, and no branch, has none in either layer.
LEMMA NoBranchUnseen ==
    ASSUME NEW files, ~PinUnreadable(files), ~FloatingIn(files)
    PROVE  ~Floats(files)
<1>1. SUFFICES ASSUME NEW n \in FileNames, files[n] # NoText,
                      {files[n].ref, files[n].input} \cap Floating # {}
               PROVE  FALSE
  BY DEF Floats
<1>2. files[n].form # "flow" /\ RefsIn(files[n]) = {files[n].ref}
  BY <1>1 DEF PinUnreadable, RefsIn
<1>3. files[n].ref \notin Floating
  BY <1>1, <1>2 DEF FloatingIn
<1>4. files[n].input \in Floating /\ InputsIn(files[n]) = {files[n].input}
  BY <1>1, <1>2, <1>3 DEF InputsIn, Floating
<1>5. QED
  BY <1>1, <1>2, <1>3, <1>4 DEF FloatingIn

\* What GitHub drops, or what may hold a runner for ever, is an error.
LEMMA UnsoundIsError ==
    ASSUME NEW own \in OwnWorkflows, ~(Runs(own) /\ Bounded(own))
    PROVE  \E f \in OwnFindings(own) : f.severity = "error"
<1>1. CASE own.readable = "no"
  BY <1>1 DEF OwnFindings, Found
<1>2. CASE own.readable = "twice"
  <2>1. Found("yaml-duplicate-key", "error") \in OwnFindings(own)
    BY <1>2 DEF OwnFindings
  <2>2. QED
    BY <2>1 DEF Found
<1>3. CASE own.readable = "yes"
  <2>1. own.job \in {"calls", "calls and more", "hosted", "label", "vars"}
    BY DEF OwnWorkflows
  <2>2. BadKey(own) \/ ~Bounded(own)
    BY <1>3, <2>1 DEF Runs, BadKey
  <2>3. CASE BadKey(own)
    <3>1. Found("invalid-caller-key", "error") \in OwnFindings(own)
      BY <1>3, <2>3 DEF OwnFindings
    <3>2. QED
      BY <3>1 DEF Found
  <2>4. CASE ~Bounded(own)
    <3>1. \E rule : Found(rule, "error") \in OwnFindings(own)
      BY <1>3, <2>4 DEF OwnFindings
    <3>2. QED
      BY <3>1 DEF Found
  <2>5. QED
    BY <2>2, <2>3, <2>4
<1>4. QED
  BY <1>1, <1>2, <1>3 DEF OwnWorkflows

LEMMA AuditLookedStart == FleetInit => GreenAuditLooked
BY DEF FleetInit, NoVerdict, GreenAuditLooked

LEMMA AuditLookedStep ==
    ASSUME GreenAuditLooked, [FleetNext]_fleetVars
    PROVE  GreenAuditLooked'
<1>1. CASE verdict' = NoVerdict
  BY <1>1 DEF NoVerdict, GreenAuditLooked
<1>2. ASSUME NEW own \in OwnWorkflows, NEW strict \in BOOLEAN,
             NEW allowed \in {{}, {"self-hosted-pr-without-fork-guard"}, {"*"}},
             CiAudit(own, strict, allowed)
      PROVE  GreenAuditLooked'
  <2>1. SUFFICES ASSUME verdict'.exit = 0 PROVE verdict'.by = "ci-audit" /\ verdict'.runs
    BY DEF GreenAuditLooked
  <2> DEFINE reported == {f \in Findings(own) : f.rule \notin allowed /\ "*" \notin allowed}
  <2>2. verdict' = [by |-> "ci-audit", strict |-> strict,
                    exit |-> IF HasFailure(reported, strict) THEN 1 ELSE 0,
                    runs |-> allowed # {} \/ (Runs(own) /\ Bounded(own))]
    BY <1>2 DEF CiAudit
  <2>3. ~HasFailure(reported, strict)
    BY <2>1, <2>2
  <2>4. CASE allowed = {}
    <3>1. \A f \in OwnFindings(own) : f.severity # "error"
      BY <2>3, <2>4 DEF HasFailure, Findings
    <3>2. Runs(own) /\ Bounded(own)
      BY <3>1, UnsoundIsError
    <3>3. QED
      BY <2>2, <3>2
  <2>5. QED
    BY <2>2, <2>4
<1>3. CASE CiAuditUnreadable
  BY <1>3 DEF CiAuditUnreadable, NoVerdict, GreenAuditLooked
<1>4. ASSUME NEW remote \in BOOLEAN, NEW strict \in BOOLEAN, NEW warnOnly \in BOOLEAN,
             FleetScan(remote, strict, warnOnly)
      PROVE  GreenAuditLooked'
  <2>1. UNCHANGED <<origin, work>> /\ ~(strict /\ warnOnly)
    BY <1>4 DEF FleetScan
  <2>2. verdict' = [by |-> IF remote THEN "fleet" ELSE "fleet here", strict |-> strict, runs |-> TRUE,
                    exit |-> IF warnOnly \/ (FleetOk(Scanned(remote)) /\ (strict => ~FloatingIn(Scanned(remote))))
                             THEN 0 ELSE 1]
    BY <1>4 DEF FleetScan
  <2>3. verdict'.exit = 0 /\ strict => ~Floats(Scanned(remote))
    <3>1. SUFFICES ASSUME verdict'.exit = 0, strict PROVE ~Floats(Scanned(remote))
      OBVIOUS
    <3>2. FleetOk(Scanned(remote)) /\ ~FloatingIn(Scanned(remote))
      <4> DEFINE sound == FleetOk(Scanned(remote)) /\ (strict => ~FloatingIn(Scanned(remote)))
      <4>1. verdict'.exit = IF warnOnly \/ sound THEN 0 ELSE 1
        BY <2>2
      <4> HIDE DEF sound
      <4>2. warnOnly \/ sound
        BY <3>1, <4>1
      <4>3. sound
        BY <2>1, <3>1, <4>2
      <4>4. QED
        BY <3>1, <4>3 DEF sound
    <3>3. QED
      BY <3>2, NoBranchUnseen DEF FleetOk
  <2>4. /\ verdict'.strict = strict /\ verdict'.by # "ci-audit"
        /\ verdict'.by = "fleet" => remote
        /\ verdict'.by = "fleet here" => ~remote
    BY <2>2
  <2>5. Floats(origin)' = Floats(origin) /\ Floats(work)' = Floats(work)
    BY <2>1 DEF Floats
  <2>6. QED
    BY <2>3, <2>4, <2>5 DEF GreenAuditLooked, Scanned
<1>5. CASE UNCHANGED fleetVars
  BY <1>5 DEF fleetVars, GreenAuditLooked, Floats
<1>6. QED
  BY <1>1, <1>2, <1>3, <1>4, <1>5 DEF FleetNext, Push

-----------------------------------------------------------------------------
(* domain-leak: what leaks now in a repository that was looked at has been   *)
(* found, could not be seen, or has changed since.                           *)

LeakScanSound ==
    /\ \A e \in LeaksNow : e[1] \notin leakScan.left => e \in leakScan.hits \cup leakScan.excused
    /\ leakScan.step # "scan" => leakScan.left = {}
    /\ leakScan.step = "write" => NotHere \subseteq leakScan.excused

LeakInv ==
    /\ DOMAIN leakTrees = LeakRepos
    /\ leakBaseline # BadBaseline => leakBaseline \subseteq Entries_
    /\ leakScan # NoLeakScan => leakScan \in LeakScans /\ LeakScanSound
    /\ LeakGreenLooked

LEMMA LeakStart == LeakInit => LeakInv
BY DEF LeakInit, LeakInv, LeakTreesAtFirst, LeakGreenLooked, Unjudged

\* What the workspace holds is the same to a scan that changes.
LEMMA SameLeaks ==
    ASSUME UNCHANGED leakTrees
    PROVE  LeaksNow' = LeaksNow /\ NotHere' = NotHere
BY DEF LeaksNow, NotHere

LEMMA NewScanSound ==
    ASSUME LeakInv, UNCHANGED leakTrees, NEW prune \in BOOLEAN, NEW known \in SUBSET Entries_,
           leakScan' = [LeakScanFrom(prune) EXCEPT !.base = known]
    PROVE  leakScan' \in LeakScans /\ LeakScanSound'
<1>1. leakScan' = [step |-> "scan", prune |-> prune, left |-> LeakRepos, base |-> known,
                   hits |-> {}, excused |-> {}]
  BY DEF LeakScanFrom
<1>2. leakScan' \in LeakScans
  <2>1. LeakRepos \in SUBSET LeakRepos /\ {} \in SUBSET Entries_
    OBVIOUS
  <2>2. [step |-> "scan", prune |-> prune, left |-> LeakRepos, base |-> known,
         hits |-> {}, excused |-> {}] \in LeakScans
    BY <2>1 DEF LeakScans
  <2>3. QED
    BY <1>1, <2>2, Zenon
<1>3. \A e \in LeaksNow : e[1] \in LeakRepos
  BY DEF LeaksNow, Entries_
<1>4. QED
  BY <1>1, <1>2, <1>3, SameLeaks DEF LeakScanSound

LEMMA ScanLeakRepoStep ==
    ASSUME LeakInv, NEW repo \in LeakRepos, NEW unread \in SUBSET LeakFiles,
           ScanLeakRepo(repo, unread)
    PROVE  LeakInv'
<1> DEFINE here == leakTrees[repo] # NoCheckout
           read == {f \in LeakFiles : here /\ Walked(f) /\ f \notin unread}
           hit  == {f \in read : FindTerms(f, leakTrees[repo][f])}
           blind == IF here THEN {repo} \X (LeakFiles \ read) ELSE {}
<1>1. /\ leakScan # NoLeakScan /\ leakScan.step = "scan" /\ repo \in leakScan.left
      /\ leakScan' = [leakScan EXCEPT !.left = @ \ {repo}, !.hits = @ \cup ({repo} \X hit),
                                      !.excused = @ \cup blind]
      /\ UNCHANGED <<leakTrees, leakBaseline, leakVerdict, struckOff, overlooked, leakEdits>>
  BY DEF ScanLeakRepo
<1>2. {repo} \X hit \subseteq Entries_ /\ blind \subseteq Entries_
  BY DEF Entries_
<1>3. ASSUME NEW e \in LeaksNow, e[1] = repo
      PROVE  e \in ({repo} \X hit) \cup blind
  BY <1>3 DEF LeaksNow, Entries_
<1> HIDE DEF here, read, hit, blind
<1>4. leakScan \in LeakScans /\ LeakScanSound
  BY <1>1 DEF LeakInv
<1>5. leakScan' \in LeakScans
  BY <1>1, <1>2, <1>4 DEF LeakScans
<1>6. /\ leakScan'.left = leakScan.left \ {repo} /\ leakScan'.step = "scan"
      /\ leakScan'.hits = leakScan.hits \cup ({repo} \X hit)
      /\ leakScan'.excused = leakScan.excused \cup blind
  BY <1>1, <1>4 DEF LeakScans
<1>7. LeakScanSound'
  BY <1>1, <1>3, <1>4, <1>6, SameLeaks DEF LeakScanSound
<1>8. QED
  BY <1>1, <1>5, <1>7 DEF LeakInv, LeakGreenLooked

LEMMA EndLeakScanStep ==
    ASSUME LeakInv, EndLeakScan \/ CheckReach
    PROVE  LeakInv'
<1>1. leakScan # NoLeakScan /\ leakScan \in LeakScans /\ LeakScanSound
  BY DEF EndLeakScan, CheckReach, LeakInv
<1>2. UNCHANGED <<leakTrees, leakBaseline, struckOff, overlooked, leakEdits>>
  BY DEF EndLeakScan, CheckReach
<1>3. CASE EndLeakScan
  <2>1. CASE leakScan.prune
    <3>1. /\ leakScan' = [leakScan EXCEPT !.step = "prune"] /\ UNCHANGED leakVerdict
          /\ leakScan.left = {}
      BY <1>3, <2>1 DEF EndLeakScan
    <3>2. leakScan' \in LeakScans /\ LeakScanSound'
      BY <1>1, <1>2, <3>1, SameLeaks DEF LeakScans, LeakScanSound
    <3>3. QED
      BY <1>2, <3>1, <3>2 DEF LeakInv, LeakGreenLooked
  <2>2. CASE ~leakScan.prune
    <3>1. /\ leakScan' = NoLeakScan /\ leakScan.left = {}
          /\ leakVerdict' = [exit |-> IF NewLeaks # {} THEN 1 ELSE 0,
                             missed |-> LeaksNow \ (leakScan.base \cup leakScan.excused)]
      BY <1>3, <2>2 DEF EndLeakScan
    <3>2. leakVerdict'.exit = 0 => leakScan.hits \subseteq leakScan.base
      BY <3>1 DEF NewLeaks
    <3>3. LeaksNow \subseteq leakScan.hits \cup leakScan.excused
      BY <1>1, <3>1 DEF LeakScanSound
    <3>4. leakVerdict'.exit = 0 => leakVerdict'.missed = {}
      BY <3>1, <3>2, <3>3
    <3>5. QED
      BY <1>2, <3>1, <3>4 DEF LeakInv, LeakGreenLooked
  <2>3. QED
    BY <2>1, <2>2
<1>4. CASE CheckReach
  <2>1. CASE \E repo \in LeakRepos : leakTrees[repo] = NoCheckout
    <3>1. leakScan' = NoLeakScan /\ leakVerdict' = [exit |-> 2, missed |-> {}]
      BY <1>4, <2>1 DEF CheckReach
    <3>2. QED
      BY <1>2, <3>1 DEF LeakInv, LeakGreenLooked
  <2>2. CASE ~\E repo \in LeakRepos : leakTrees[repo] = NoCheckout
    <3>1. /\ leakScan' = [leakScan EXCEPT !.step = "write"] /\ UNCHANGED leakVerdict
          /\ leakScan.step = "prune"
      BY <1>4, <2>2 DEF CheckReach
    <3>2. NotHere = {}
      BY <2>2 DEF NotHere, Entries_
    <3>3. leakScan' \in LeakScans /\ LeakScanSound'
      BY <1>1, <1>2, <3>1, <3>2, SameLeaks DEF LeakScans, LeakScanSound
    <3>4. QED
      BY <1>2, <3>1, <3>3 DEF LeakInv, LeakGreenLooked
  <2>3. QED
    BY <2>1, <2>2
<1>5. QED
  BY <1>3, <1>4

LEMMA PruneBaselineStep ==
    ASSUME LeakInv, PruneBaseline
    PROVE  LeakInv'
<1>1. /\ leakScan \in LeakScans /\ LeakScanSound /\ leakScan.step = "write"
      /\ UNCHANGED <<leakTrees, leakVerdict, overlooked, leakEdits>>
  BY DEF PruneBaseline, LeakInv
<1>2. LoadBaseline \subseteq Entries_
  BY DEF LeakInv, LoadBaseline
<1>3. leakBaseline' # BadBaseline => leakBaseline' \subseteq Entries_
  BY <1>2 DEF PruneBaseline, LeakInv
<1>4. leakScan' \in LeakScans /\ LeakScanSound'
  BY <1>1, <1>2, NewScanSound DEF PruneBaseline
<1>5. LeaksNow \cup NotHere \subseteq leakScan.hits \cup leakScan.excused
  BY <1>1 DEF LeakScanSound
<1>6. struckOff' = {}
  BY <1>5 DEF PruneBaseline, StaleLeaks, LeakInv, LeakGreenLooked
<1>7. QED
  BY <1>1, <1>3, <1>4, <1>6 DEF LeakInv, LeakGreenLooked

LEMMA WorkInRepoStep ==
    ASSUME LeakInv, NEW repo \in LeakRepos, WorkInRepo(repo)
    PROVE  LeakInv'
<1>1. PICK tree_ \in CheckoutsFrom(leakTrees[repo]) :
         /\ leakTrees' = [leakTrees EXCEPT ![repo] = tree_]
         /\ leakScan' = IF leakScan = NoLeakScan THEN leakScan
                        ELSE [leakScan EXCEPT !.excused = @ \cup
                                {<<repo, f>> : f \in {g \in LeakFiles :
                                    \/ NoCheckout \in {tree_, leakTrees[repo]}
                                    \/ tree_[g] # leakTrees[repo][g]}}]
  BY DEF WorkInRepo
<1>2. UNCHANGED <<leakBaseline, leakVerdict, struckOff, overlooked>>
  BY DEF WorkInRepo
<1>3. /\ DOMAIN leakTrees' = LeakRepos /\ leakTrees'[repo] = tree_
      /\ \A r \in LeakRepos \ {repo} : leakTrees'[r] = leakTrees[r]
  BY <1>1 DEF LeakInv
<1>4. CASE leakScan = NoLeakScan
  BY <1>1, <1>2, <1>3, <1>4 DEF LeakInv, LeakGreenLooked
<1>5. CASE leakScan # NoLeakScan
  <2> DEFINE changed == {<<repo, f>> : f \in {g \in LeakFiles :
                              \/ NoCheckout \in {tree_, leakTrees[repo]}
                              \/ tree_[g] # leakTrees[repo][g]}}
  <2>1. leakScan' = [leakScan EXCEPT !.excused = @ \cup changed]
    BY <1>1, <1>5
  <2>2. changed \subseteq Entries_
    BY DEF Entries_
  <2>3. ASSUME NEW e \in Entries_
        PROVE  /\ e \in LeaksNow' => e \in LeaksNow \cup changed
               /\ e \in NotHere' => e \in NotHere \cup changed
    <3>1. e[1] \in LeakRepos /\ e[2] \in LeakFiles /\ e = <<e[1], e[2]>>
      BY DEF Entries_
    <3>2. CASE e[1] # repo
      BY <1>3, <3>1, <3>2 DEF LeaksNow, NotHere
    <3>3. CASE e[1] = repo
      <4>1. e \notin changed => leakTrees[repo] # NoCheckout /\ tree_ # NoCheckout
                                /\ tree_[e[2]] = leakTrees[repo][e[2]]
        BY <3>1, <3>3
      <4>2. QED
        BY <1>3, <3>3, <4>1 DEF LeaksNow, NotHere
    <3>4. QED
      BY <3>2, <3>3
  <2>4. LeaksNow' \subseteq Entries_ /\ NotHere' \subseteq Entries_
    BY DEF LeaksNow, NotHere, Entries_
  <2> HIDE DEF changed
  <2>5. leakScan \in LeakScans /\ LeakScanSound
    BY <1>5 DEF LeakInv
  <2>6. /\ leakScan' \in LeakScans
        /\ leakScan'.left = leakScan.left /\ leakScan'.step = leakScan.step
        /\ leakScan'.hits = leakScan.hits
        /\ leakScan'.excused = leakScan.excused \cup changed
    BY <2>1, <2>2, <2>5 DEF LeakScans
  <2>7. LeakScanSound'
    BY <2>3, <2>4, <2>5, <2>6 DEF LeakScanSound
  <2>8. QED
    BY <1>2, <1>3, <2>6, <2>7 DEF LeakInv, LeakGreenLooked
<1>6. QED
  BY <1>4, <1>5

\* What a line of a push brings is among the pairs the hook looks at, unless git fails or
\* keeps it back.
LEMMA BroughtIsSeen ==
    ASSUME NEW unshown \in SUBSET LeakFiles, NEW retyped \in SUBSET LeakFiles,
           NEW line \in RefLines, ~GitFails(line), NEW f \in Brings(line),
           f \notin Overlooked(unshown, retyped)
    PROVE  LET shown == Shown(line.head, unshown, f)
           IN  /\ <<f, shown>> \in LinePairs(line, unshown, retyped)
               /\ HookScope(f) /\ FindTerms(f, shown)
<1> DEFINE shown == Shown(line.head, unshown, f)
<1>0. f \notin QuotedNames /\ f \notin retyped /\ (f \in unshown => f \in TermNames)
  BY DEF Overlooked
<1>1. line.kind \notin {"delete", "malformed"}
  BY DEF Brings
<1>2. /\ f \in LeakFiles /\ FindTerms(f, line.head[f]) /\ InLeakScope(f)
      /\ line.base \in {NoBase, UnknownBase} \/ line.base[f] # line.head[f]
  BY <1>1 DEF Brings
<1>3. line.head[f] # "none" /\ FindTerms(f, shown) /\ HookScope(f)
  BY <1>0, <1>2 DEF FindTerms, Shown, HookScope
<1> HIDE DEF shown
<1>4. CASE line.kind = "new"
  <2>1. line.base \in LeakTrees \cup {NoBase}
    BY <1>4 DEF RefLines, EmptyLines
  <2>2. line.base = NoBase \/ line.base \notin {NoBase, UnknownBase}
    BY <2>1, DomainLeakAssumption DEF LeakTrees, LeakTexts
  <2>3. <<f, shown>> \in (IF line.base = NoBase THEN TreePairs(line.head, unshown)
                          ELSE DiffPairs(line.base, line.head, unshown, retyped))
    BY <1>0, <1>2, <1>3, <2>2 DEF TreePairs, DiffPairs, shown
  <2>4. QED
    BY <1>3, <1>4, <2>3 DEF LinePairs, shown
<1>5. CASE line.kind = "update"
  <2>1. line.base \in LeakTrees
    BY <1>5 DEF RefLines, EmptyLines, GitFails
  <2>2. line.base \notin {NoBase, UnknownBase}
    BY <2>1, DomainLeakAssumption DEF LeakTrees, LeakTexts
  <2>3. <<f, shown>> \in DiffPairs(line.base, line.head, unshown, retyped)
    BY <1>0, <1>2, <1>3, <2>2 DEF DiffPairs, shown
  <2>4. QED
    BY <1>3, <1>5, <2>3 DEF LinePairs, shown
<1>6. QED
  BY <1>1, <1>4, <1>5 DEF RefLines, EmptyLines

LEMMA RunPushedStep ==
    ASSUME LeakInv, leakScan = NoLeakScan, NEW clone \in Clones, NEW lines \in SUBSET RefLines,
           NEW unshown \in SUBSET LeakFiles, NEW retyped \in SUBSET LeakFiles,
           RunPushed(clone, lines, unshown, retyped)
    PROVE  LeakInv'
<1>1. UNCHANGED <<leakTrees, leakBaseline, leakScan, struckOff, leakEdits>>
  BY DEF RunPushed
<1> DEFINE brought == {clone.is} \X UNION {Brings(line) : line \in lines}
           seen == UNION {LinePairs(line, unshown, retyped) : line \in lines}
<1>2. CASE leakVerdict' = [exit |-> 2, missed |-> {}] \/ leakVerdict' = [exit |-> 0, missed |-> {}]
  BY <1>1, <1>2 DEF LeakInv, LeakGreenLooked
<1>3. CASE /\ clone.is # OtherRepo /\ ~\E line \in lines : GitFails(line)
           /\ leakVerdict' = [exit |-> IF NewHits(clone.is, seen) # {} THEN 1 ELSE 0,
                              missed |-> brought \ LoadBaseline]
  <2>1. ASSUME NEW e \in brought \ LoadBaseline, e[2] \notin Overlooked(unshown, retyped)
        PROVE  e \in NewHits(clone.is, seen)
    <3>1. PICK line \in lines : \E f \in Brings(line) : e = <<clone.is, f>>
      OBVIOUS
    <3> PICK f \in Brings(line) : e = <<clone.is, f>>
      BY <3>1
    <3> DEFINE shown == Shown(line.head, unshown, f)
    <3>2. /\ <<f, shown>> \in LinePairs(line, unshown, retyped)
          /\ HookScope(f) /\ FindTerms(f, shown)
      <4>1. f \notin Overlooked(unshown, retyped) /\ ~GitFails(line) /\ line \in RefLines
        BY <1>3, <2>1
      <4>2. QED
        BY <4>1, BroughtIsSeen
    <3> HIDE DEF shown
    <3>3. <<f, shown>> \in seen
      BY <3>2
    <3> HIDE DEF seen
    <3>4. e \in {<<clone.is, p[1]>> : p \in {q \in seen : HookScope(q[1]) /\ FindTerms(q[1], q[2])}}
      BY <3>2, <3>3
    <3>5. QED
      BY <3>4 DEF NewHits
  <2>2. \A e \in brought : /\ clone.is \in LeakRepos
                           /\ e[2] \in Overlooked(unshown, retyped) => e \in overlooked'
    <3>1. clone.is # OtherRepo /\ clone.is \in LeakRepos
      BY <1>3 DEF Clones
    <3>2. overlooked' = {clone.is} \X Overlooked(unshown, retyped)
      BY <3>1 DEF RunPushed
    <3>3. \A e \in brought : e = <<clone.is, e[2]>>
      OBVIOUS
    <3> HIDE DEF brought
    <3>4. QED
      BY <3>1, <3>2, <3>3
  <2> HIDE DEF brought, seen
  <2>3. leakVerdict'.exit = 0 => leakVerdict'.missed \subseteq overlooked'
    BY <1>3, <2>1, <2>2
  <2>4. QED
    BY <1>1, <2>3 DEF LeakInv, LeakGreenLooked
<1>4. QED
  BY <1>2, <1>3 DEF RunPushed

LEMMA LeakInvStep ==
    ASSUME LeakInv, [LeakNext]_leakVars
    PROVE  LeakInv'
<1>1. ASSUME NEW source, NEW prune \in BOOLEAN, StartLeakScan(source, prune)
      PROVE  LeakInv'
  <2>1. UNCHANGED <<leakTrees, leakBaseline, struckOff, overlooked, leakEdits>>
    BY <1>1 DEF StartLeakScan
  <2>2. CASE source = "fallback"
    <3>1. leakVerdict' = [exit |-> 2, missed |-> {}] /\ UNCHANGED leakScan /\ leakScan = NoLeakScan
      BY <1>1, <2>2 DEF StartLeakScan
    <3>2. QED
      BY <2>1, <3>1 DEF LeakInv, LeakGreenLooked
  <2>3. CASE source # "fallback"
    <3>1. leakScan' = LeakScanFrom(prune) /\ UNCHANGED leakVerdict
      BY <1>1, <2>3 DEF StartLeakScan
    <3>2. leakScan' = [LeakScanFrom(prune) EXCEPT !.base = LoadBaseline]
      BY <3>1 DEF LeakScanFrom
    <3>3. LoadBaseline \subseteq Entries_
      BY DEF LeakInv, LoadBaseline
    <3>4. QED
      BY <2>1, <3>1, <3>2, <3>3, NewScanSound DEF LeakInv, LeakGreenLooked
  <2>4. QED
    BY <2>2, <2>3
<1>2. ASSUME HookRuns, NEW clone \in Clones, NEW line \in RefLines,
             NEW unshown \in SUBSET LeakFiles, NEW retyped \in SUBSET LeakFiles,
             RunPushed(clone, {line, [kind |-> "delete"]}, unshown, retyped)
      PROVE  LeakInv'
  <2>1. [kind |-> "delete"] \in RefLines
    BY DEF RefLines, EmptyLines
  <2>2. QED
    BY <1>2, <2>1, RunPushedStep DEF HookRuns
<1>3. ASSUME HookRuns, NEW clone \in Clones, NEW head \in LeakTrees, NEW index \in LeakTrees,
             NEW unshown \in SUBSET LeakFiles, NEW retyped \in SUBSET LeakFiles,
             RunStaged(clone, head, index, unshown, retyped)
      PROVE  LeakInv'
  <2>1. [kind |-> "update", base |-> head, head |-> index] \in RefLines
    BY DEF RefLines
  <2>2. QED
    BY <1>3, <2>1, RunPushedStep DEF HookRuns, RunStaged
<1>4. CASE BaselineChanges
  <2>1. UNCHANGED <<leakTrees, leakScan, leakVerdict, struckOff, overlooked>>
    BY <1>4 DEF BaselineChanges
  <2>2. leakBaseline' # BadBaseline => leakBaseline' \subseteq Entries_
    BY <1>4 DEF BaselineChanges, LeakInv, LoadBaseline
  <2>3. LeakScanSound' = LeakScanSound
    BY <2>1, SameLeaks DEF LeakScanSound
  <2>4. QED
    BY <2>1, <2>2, <2>3 DEF LeakInv, LeakGreenLooked
<1>5. CASE UNCHANGED leakVars
  <2>1. LeakScanSound' = LeakScanSound
    BY <1>5, SameLeaks DEF LeakScanSound, leakVars
  <2>2. QED
    BY <1>5, <2>1 DEF LeakInv, LeakGreenLooked, leakVars
<1>6. QED
  BY <1>1, <1>2, <1>3, <1>4, <1>5, ScanLeakRepoStep, EndLeakScanStep, PruneBaselineStep,
     WorkInRepoStep DEF LeakNext

-----------------------------------------------------------------------------
(* verify-versions: what a green gate has compared with what.               *)

\* The body of GreenMeansOneLine.
OneLine ==
    /\ ~TwoSlots => Cardinality(CargoLines) <= 1
    /\ Cardinality(PublishedLines) <= 1
    /\ pyRoot \in Lines => DistLines = {pyRoot}
    /\ TheConfig.cross = "lockstep" /\ ~TwoSlots => CargoLines \cup PublishedLines \subseteq {CargoBase} \ {Unversioned}
    /\ Pinned_("cargo") /\ ~TwoSlots => CargoLines \subseteq {TheConfig.cargo}
    /\ Corrupt \notin {cargoRoot, npmRoot, pyRoot, versionsToml}

VersionsInv ==
    /\ versionSlots \in [Members -> NpmFile \cup {Absent, Corrupt}]
    /\ gate.exit = 0 => OneLine

LEMMA AtMostOne ==
    ASSUME NEW S, NEW x, S \subseteq {x}
    PROVE  Cardinality(S) <= 1
<1>1. IsFiniteSet({x}) /\ Cardinality({x}) = 1
  BY FS_Singleton
<1>2. QED
  BY <1>1, FS_Subset

\* A published member has a vote, and of two members' votes some line has the most.
LEMMA VoteHasWinner ==
    ASSUME versionSlots \in [Members -> NpmFile \cup {Absent, Corrupt}],
           NEW m \in Members, IsFile(versionSlots[m]), ~versionSlots[m].private,
           versionSlots[m].version \in Lines
    PROVE  Winners # {}
<1> DEFINE voters(v) == {x \in Members : /\ IsFile(versionSlots[x])
                                         /\ versionSlots[x] = [version |-> v, private |-> FALSE]}
           line == versionSlots[m].version
<1>1. IsFiniteSet(Members) /\ Cardinality(Members) <= 2
  <2>1. IsFiniteSet({"lib"}) /\ Cardinality({"lib"}) = 1
    BY FS_Singleton
  <2>2. IsFiniteSet({"lib"} \cup {"vendored"}) /\ Cardinality({"lib"} \cup {"vendored"}) = 2
    <3>1. "vendored" \notin {"lib"}
      OBVIOUS
    <3>2. /\ IsFiniteSet({"lib"} \cup {"vendored"})
          /\ Cardinality({"lib"} \cup {"vendored"})
               = IF "vendored" \in {"lib"} THEN Cardinality({"lib"}) ELSE Cardinality({"lib"}) + 1
      BY <2>1, FS_AddElement, Zenon
    <3>3. QED
      BY <2>1, <3>1, <3>2
  <2>3. Members = {"lib"} \cup {"vendored"}
    BY DEF Members
  <2>4. QED
    BY <2>2, <2>3
<1>2. ASSUME NEW v PROVE PublishedAt(v) \in 0..2
  <2>1. voters(v) \subseteq Members
    OBVIOUS
  <2>2. Cardinality(voters(v)) <= Cardinality(Members) /\ IsFiniteSet(voters(v))
    BY <1>1, <2>1, FS_Subset
  <2>3. Cardinality(voters(v)) \in Nat /\ Cardinality(Members) \in Nat
    BY <1>1, <2>2, FS_CardinalityType
  <2>4. QED
    BY <1>1, <2>2, <2>3 DEF PublishedAt
<1>3. PublishedAt(line) > 0
  <2>1. m \in voters(line)
    BY DEF IsFile, NpmFile
  <2>2. IsFiniteSet(voters(line))
    <3>1. voters(line) \subseteq Members
      OBVIOUS
    <3>2. QED
      BY <1>1, <3>1, FS_Subset
  <2>3. Cardinality(voters(line)) # 0
    BY <2>1, <2>2, FS_EmptySet
  <2>4. QED
    BY <1>2, <2>3 DEF PublishedAt
<1> HIDE DEF voters, line
<1>4. CASE \E w \in Lines : PublishedAt(w) = 2
  <2>1. PICK w \in Lines : PublishedAt(w) = 2
    BY <1>4
  <2>2. w \in Winners
    BY <1>2, <2>1 DEF Winners
  <2>3. QED
    BY <2>2
<1>5. CASE ~\E w \in Lines : PublishedAt(w) = 2
  <2>1. line \in Winners
    BY <1>2, <1>3, <1>5 DEF Winners, line
  <2>2. QED
    BY <2>1
<1>6. QED
  BY <1>4, <1>5

LEMMA CargoOnOneLine ==
    ASSUME NEW b, ~Errors(b), ~CargoDrifts, ~TwoSlots
    PROVE  CargoLines \subseteq {CargoBase}
<1>1. cargoRoot # Corrupt /\ (CargoPresent => CargoBase # Unversioned)
  BY DEF Errors
<1>2. ASSUME NEW m \in Gated, crates[m] \in Lines
      PROVE  crates[m] = CargoBase
  <2>1. CargoPresent
    BY <1>2 DEF CargoPresent, Gated
  <2>2. QED
    BY <1>1, <1>2, <2>1 DEF CargoDrifts, Drifted
<1> DEFINE root == IF cargoRoot.workspace # Unversioned THEN cargoRoot.workspace ELSE cargoRoot.package
<1>3. ASSUME IsFile(cargoRoot), root \in Lines
      PROVE  root = CargoBase
  <2>1. CargoBase # Unversioned
    BY <1>1, <1>3 DEF CargoPresent
  <2>2. CASE Pinned_("cargo")
    <3>1. cargoRoot.package \in Lines => cargoRoot.workspace = Unversioned
      BY <1>3 DEF TwoSlots
    <3>2. root = IF cargoRoot.package \in Lines THEN cargoRoot.package ELSE cargoRoot.workspace
      BY <1>3, <3>1
    <3>3. QED
      BY <1>3, <2>1, <2>2, <3>2 DEF CargoDrifts, Drifted
  <2>3. CASE ~Pinned_("cargo")
    BY <1>3, <2>3 DEF CargoBase, CargoInferred
  <2>4. QED
    BY <2>2, <2>3
<1>4. QED
  BY <1>2, <1>3 DEF CargoLines

LEMMA NpmOnOneLine ==
    ASSUME versionSlots \in [Members -> NpmFile \cup {Absent, Corrupt}],
           NEW b, ~Errors(b), ~NpmDrifts(b)
    PROVE  PublishedLines \subseteq {b}
<1>1. SUFFICES ASSUME NEW f \in {npmRoot} \cup {versionSlots[m] : m \in Gated}, IsFile(f), ~f.private,
                      f.version \in Lines
               PROVE  f.version = b
  BY DEF PublishedLines
<1>2. f.version # Unversioned
  BY <1>1, VerifyVersionsAssumption DEF Lines
<1>3. NpmPresent
  <2>1. CASE f = npmRoot
    BY <1>1, <1>2, <2>1 DEF NpmPresent, NpmRootDefines
  <2>2. ASSUME NEW m \in Gated, f = versionSlots[m]
        PROVE  NpmPresent
    BY <1>1, <2>2, VoteHasWinner DEF NpmPresent, Gated
  <2>3. QED
    BY <1>1, <2>1, <2>2
<1>4. b # Unversioned
  BY <1>3 DEF Errors
<1>5. ~Drifted(f.version, b)
  BY <1>1, <1>4 DEF NpmDrifts
<1>6. QED
  BY <1>1, <1>5 DEF Drifted

LEMMA GreenIsOneLine ==
    ASSUME versionSlots \in [Members -> NpmFile \cup {Absent, Corrupt}],
           NEW b \in NpmBases, ~Errors(b), ~CargoDrifts, ~NpmDrifts(b), ~PythonDrifts, ~CrossDrifts(b)
    PROVE  OneLine
<1>1. ~TwoSlots => CargoLines \subseteq {CargoBase}
  BY CargoOnOneLine
<1>2. PublishedLines \subseteq {b}
  BY NpmOnOneLine
<1>3. Corrupt \notin {cargoRoot, npmRoot, pyRoot, versionsToml}
  <2>1. Pinned_("npm") => b # Unversioned
    BY DEF NpmBases, Pinned_
  <2>2. QED
    BY <2>1 DEF Errors
<1>4. ASSUME TheConfig.cross = "lockstep"
      PROVE  CargoBase = b /\ b # Unversioned
  BY <1>4 DEF Errors, CrossDrifts
<1>5. ASSUME pyRoot \in Lines
      PROVE  DistLines = {pyRoot}
  <2>1. PythonPresent
    BY <1>5 DEF PythonPresent
  <2>2. PythonBase # Unversioned
    BY <2>1 DEF Errors
  <2>3. PythonBase = pyRoot
    BY <1>5, <2>2 DEF PythonDrifts, Drifted, PythonBase, PythonInferred
  <2>4. \A m \in Gated : dists[m] \in Lines => dists[m] = pyRoot
    BY <2>2, <2>3 DEF PythonDrifts, Drifted
  <2>5. QED
    BY <1>5, <2>4 DEF DistLines
<1>6. ~TwoSlots => Cardinality(CargoLines) <= 1
  BY <1>1, AtMostOne
<1>7. Cardinality(PublishedLines) <= 1
  BY <1>2, AtMostOne
<1>8. TheConfig.cross = "lockstep" /\ ~TwoSlots => CargoLines \cup PublishedLines \subseteq {CargoBase} \ {Unversioned}
  BY <1>1, <1>2, <1>4
<1>9. Pinned_("cargo") /\ ~TwoSlots => CargoLines \subseteq {TheConfig.cargo}
  BY <1>1 DEF CargoBase
<1>10. QED
  BY <1>3, <1>5, <1>6, <1>7, <1>8, <1>9 DEF OneLine

LEMMA SameSlots ==
    ASSUME UNCHANGED slotVars
    PROVE  OneLine' = OneLine
BY DEF slotVars, OneLine, TwoSlots, CargoLines, PublishedLines, DistLines, CargoBase, CargoInferred,
   TheConfig, Pinned_, Gated, IsFile

LEMMA VersionsStart == VersionsInit => VersionsInv
<1>1. SUFFICES ASSUME VersionsInit PROVE VersionsInv
  OBVIOUS
<1>2. [version |-> 1, private |-> FALSE] \in NpmFile
  BY VerifyVersionsAssumption DEF NpmFile, Declared, Lines
<1>3. QED
  BY <1>1, <1>2 DEF VersionsInit, VersionsInv, NotVerified

LEMMA VersionsInvStep ==
    ASSUME VersionsInv, [VersionsNext]_versionVars
    PROVE  VersionsInv'
<1>1. CASE EditSlot
  <2>1. gate'.exit # 0
    BY <1>1 DEF EditSlot, NotVerified
  <2>2. \/ UNCHANGED versionSlots
        \/ \E m \in Members, f \in NpmFile \cup {Absent, Corrupt} : versionSlots' = [versionSlots EXCEPT ![m] = f]
    BY <1>1 DEF EditSlot
  <2>3. versionSlots' \in [Members -> NpmFile \cup {Absent, Corrupt}]
    BY <2>2 DEF VersionsInv
  <2>4. QED
    BY <2>1, <2>3 DEF VersionsInv
<1>2. ASSUME NEW b \in Declared, VerifyFamily(b)
      PROVE  VersionsInv'
  <2>1. b \in NpmBases /\ UNCHANGED slotVars
    BY <1>2 DEF VerifyFamily
  <2>2. gate'.exit = 0 => /\ ~Errors(b) /\ ~CargoDrifts /\ ~NpmDrifts(b) /\ ~PythonDrifts
                          /\ ~CrossDrifts(b)
    BY <1>2 DEF VerifyFamily
  <2>3. gate'.exit = 0 => OneLine
    BY <2>1, <2>2, GreenIsOneLine DEF VersionsInv
  <2>4. QED
    BY <2>1, <2>3, SameSlots DEF VersionsInv, slotVars
<1>3. CASE UNCHANGED versionVars
  <2>1. UNCHANGED slotVars /\ UNCHANGED gate
    BY <1>3 DEF versionVars, slotVars
  <2>2. QED
    BY <2>1, SameSlots DEF VersionsInv, slotVars
<1>4. QED
  BY <1>1, <1>2, <1>3 DEF VersionsNext

-----------------------------------------------------------------------------
(* What the interval of a requirement has to do with its operators.         *)

WrittenPart == {p \in Nat \X (Nat \cup {AnyPart}) \X (Nat \cup {AnyPart}) : p[2] = AnyPart => p[3] = AnyPart}

\* The three shapes of a version that is written down.
LEMMA IntervalShapes ==
    ASSUME NEW p \in WrittenPart
    PROVE  \/ \E a \in Nat : p = <<a, AnyPart, AnyPart>>
           \/ \E a, b \in Nat : p = <<a, b, AnyPart>>
           \/ \E a, b, n \in Nat : p = <<a, b, n>>
BY RequirementsAssumption DEF WrittenPart

LEMMA OneComparator ==
    ASSUME NEW c, c \in [op : Operators, v : WrittenPart], c.op = "<=" => c.v[3] # AnyPart,
           NEW x \in Nat, x < UNLIMITED, NEW y \in Nat, NEW z \in Nat
    PROVE  Means(c, <<x, y, z>>) <=> Admits(Bounds(c), <<x, y, z>>)
<1> DEFINE v == <<x, y, z>>
<1>1. ASSUME NEW a \in Nat, c.v = <<a, AnyPart, AnyPart>>
      PROVE  Means(c, v) <=> Admits(Bounds(c), v)
  <2>1. /\ Floor(c.v) = <<a, 0, 0>> /\ Above(c.v) = <<a + 1, 0, 0>>
        /\ CaretHigh(c.v) = <<a + 1, 0, 0>> /\ TildeHigh(c.v) = <<a + 1, 0, 0>> /\ Pinned(c.v) = 1
    BY <1>1, RequirementsAssumption DEF Floor, Above, OrZero, CaretHigh, TildeHigh, Pinned
  <2>2. /\ Shares(c.v, v, 1) <=> a = x
        /\ Shares(c.v, v, 2) <=> a = x
        /\ Shares(c.v, v, 3) <=> a = x
    BY <1>1, RequirementsAssumption DEF Shares
  <2>3. c.op \in Operators /\ c.op # "<="
    BY <1>1
  <2>4. CASE c.op = ""
    <3>1. Low(c) = <<a, 0, 0>> /\ High(c) = <<a + 1, 0, 0>>
      BY <2>1, <2>4 DEF Low, High
    <3>2. Means(c, v) <=> a = x
      BY <2>1, <2>2, <2>4 DEF Means
    <3>3. QED
      BY <2>1, <3>1, <3>2 DEF Admits, Bounds, AtMost, Less
  <2>5. CASE c.op = "="
    <3>1. Low(c) = <<a, 0, 0>> /\ High(c) = <<a + 1, 0, 0>>
      BY <2>1, <2>5 DEF Low, High
    <3>2. Means(c, v) <=> a = x
      BY <2>1, <2>2, <2>5 DEF Means
    <3>3. QED
      BY <2>1, <3>1, <3>2 DEF Admits, Bounds, AtMost, Less
  <2>6. CASE c.op = "^"
    <3>1. Low(c) = <<a, 0, 0>> /\ High(c) = <<a + 1, 0, 0>>
      BY <2>1, <2>6 DEF Low, High
    <3>2. Means(c, v) <=> AtMost(<<a, 0, 0>>, v) /\ a = x
      BY <2>1, <2>2, <2>6 DEF Means
    <3>3. QED
      BY <2>1, <3>1, <3>2 DEF Admits, Bounds, AtMost, Less
  <2>7. CASE c.op = "~"
    <3>1. Low(c) = <<a, 0, 0>> /\ High(c) = <<a + 1, 0, 0>>
      BY <2>1, <2>7 DEF Low, High
    <3>2. Means(c, v) <=> AtMost(<<a, 0, 0>>, v) /\ a = x
      BY <2>1, <2>2, <2>7 DEF Means
    <3>3. QED
      BY <2>1, <3>1, <3>2 DEF Admits, Bounds, AtMost, Less
  <2>8. CASE c.op = ">"
    <3>1. Low(c) = <<a + 1, 0, 0>> /\ High(c) = <<UNLIMITED, 0, 0>>
      BY <2>1, <2>8 DEF Low, High
    <3>2. Means(c, v) <=> AtMost(<<a, 0, 0>>, v) /\ ~(a = x)
      BY <2>1, <2>2, <2>8 DEF Means
    <3>3. QED
      BY <2>1, <3>1, <3>2 DEF Admits, Bounds, AtMost, Less
  <2>9. CASE c.op = ">="
    <3>1. Low(c) = <<a, 0, 0>> /\ High(c) = <<UNLIMITED, 0, 0>>
      BY <2>1, <2>9 DEF Low, High
    <3>2. Means(c, v) <=> AtMost(<<a, 0, 0>>, v)
      BY <2>1, <2>2, <2>9 DEF Means
    <3>3. QED
      BY <2>1, <3>1, <3>2 DEF Admits, Bounds, AtMost, Less
  <2>10. CASE c.op = "<"
    <3>1. Low(c) = <<0, 0, 0>> /\ High(c) = <<a, 0, 0>>
      BY <2>1, <2>10 DEF Low, High
    <3>2. Means(c, v) <=> Less(v, <<a, 0, 0>>)
      BY <2>1, <2>2, <2>10 DEF Means
    <3>3. QED
      BY <2>1, <3>1, <3>2 DEF Admits, Bounds, AtMost, Less
  <2>11. QED
    BY <2>3, <2>4, <2>5, <2>6, <2>7, <2>8, <2>9, <2>10 DEF Operators
<1>2. ASSUME NEW a \in Nat, NEW b \in Nat, c.v = <<a, b, AnyPart>>
      PROVE  Means(c, v) <=> Admits(Bounds(c), v)
  <2>1. /\ Floor(c.v) = <<a, b, 0>> /\ Above(c.v) = <<a, b + 1, 0>>
        /\ CaretHigh(c.v) = IF a > 0 THEN <<a + 1, 0, 0>> ELSE <<0, b + 1, 0>>
        /\ TildeHigh(c.v) = <<a, b + 1, 0>> /\ Pinned(c.v) = IF a > 0 THEN 1 ELSE 2
    BY <1>2, RequirementsAssumption DEF Floor, Above, OrZero, CaretHigh, TildeHigh, Pinned
  <2>2. /\ Shares(c.v, v, 1) <=> a = x
        /\ Shares(c.v, v, 2) <=> (a = x /\ b = y)
        /\ Shares(c.v, v, 3) <=> (a = x /\ b = y)
    BY <1>2, RequirementsAssumption DEF Shares
  <2>3. c.op \in Operators /\ c.op # "<="
    BY <1>2
  <2>4. CASE c.op = ""
    <3>1. Low(c) = <<a, b, 0>> /\ High(c) = <<a, b + 1, 0>>
      BY <2>1, <2>4 DEF Low, High
    <3>2. Means(c, v) <=> (a = x /\ b = y)
      BY <2>1, <2>2, <2>4 DEF Means
    <3>3. QED
      BY <2>1, <3>1, <3>2 DEF Admits, Bounds, AtMost, Less
  <2>5. CASE c.op = "="
    <3>1. Low(c) = <<a, b, 0>> /\ High(c) = <<a, b + 1, 0>>
      BY <2>1, <2>5 DEF Low, High
    <3>2. Means(c, v) <=> (a = x /\ b = y)
      BY <2>1, <2>2, <2>5 DEF Means
    <3>3. QED
      BY <2>1, <3>1, <3>2 DEF Admits, Bounds, AtMost, Less
  <2>6. CASE c.op = "^"
    <3>1. Low(c) = <<a, b, 0>> /\ High(c) = (IF a > 0 THEN <<a + 1, 0, 0>> ELSE <<0, b + 1, 0>>)
      BY <2>1, <2>6 DEF Low, High
    <3>2. Means(c, v) <=> AtMost(<<a, b, 0>>, v) /\ (a = x /\ (a > 0 \/ b = y))
      BY <2>1, <2>2, <2>6 DEF Means
    <3>3. QED
      BY <2>1, <3>1, <3>2 DEF Admits, Bounds, AtMost, Less
  <2>7. CASE c.op = "~"
    <3>1. Low(c) = <<a, b, 0>> /\ High(c) = <<a, b + 1, 0>>
      BY <2>1, <2>7 DEF Low, High
    <3>2. Means(c, v) <=> AtMost(<<a, b, 0>>, v) /\ a = x /\ b = y
      BY <2>1, <2>2, <2>7 DEF Means
    <3>3. QED
      BY <2>1, <3>1, <3>2 DEF Admits, Bounds, AtMost, Less
  <2>8. CASE c.op = ">"
    <3>1. Low(c) = <<a, b + 1, 0>> /\ High(c) = <<UNLIMITED, 0, 0>>
      BY <2>1, <2>8 DEF Low, High
    <3>2. Means(c, v) <=> AtMost(<<a, b, 0>>, v) /\ ~(a = x /\ b = y)
      BY <2>1, <2>2, <2>8 DEF Means
    <3>3. QED
      BY <2>1, <3>1, <3>2 DEF Admits, Bounds, AtMost, Less
  <2>9. CASE c.op = ">="
    <3>1. Low(c) = <<a, b, 0>> /\ High(c) = <<UNLIMITED, 0, 0>>
      BY <2>1, <2>9 DEF Low, High
    <3>2. Means(c, v) <=> AtMost(<<a, b, 0>>, v)
      BY <2>1, <2>2, <2>9 DEF Means
    <3>3. QED
      BY <2>1, <3>1, <3>2 DEF Admits, Bounds, AtMost, Less
  <2>10. CASE c.op = "<"
    <3>1. Low(c) = <<0, 0, 0>> /\ High(c) = <<a, b, 0>>
      BY <2>1, <2>10 DEF Low, High
    <3>2. Means(c, v) <=> Less(v, <<a, b, 0>>)
      BY <2>1, <2>2, <2>10 DEF Means
    <3>3. QED
      BY <2>1, <3>1, <3>2 DEF Admits, Bounds, AtMost, Less
  <2>11. QED
    BY <2>3, <2>4, <2>5, <2>6, <2>7, <2>8, <2>9, <2>10 DEF Operators
<1>3. ASSUME NEW a \in Nat, NEW b \in Nat, NEW n \in Nat, c.v = <<a, b, n>>
      PROVE  Means(c, v) <=> Admits(Bounds(c), v)
  <2>1. /\ Floor(c.v) = <<a, b, n>> /\ Above(c.v) = <<a, b, n + 1>>
        /\ CaretHigh(c.v) = IF a > 0 THEN <<a + 1, 0, 0>> ELSE IF b > 0 THEN <<0, b + 1, 0>> ELSE <<0, 0, n + 1>>
        /\ TildeHigh(c.v) = <<a, b + 1, 0>> /\ Pinned(c.v) = IF a > 0 THEN 1 ELSE IF b > 0 THEN 2 ELSE 3
        /\ <<c.v[1], OrZero(c.v[2]), OrZero(c.v[3]) + 1>> = <<a, b, n + 1>>
    <3>1. AnyPart \notin {a, b, n} /\ c.v[1] = a /\ c.v[2] = b /\ c.v[3] = n
      BY <1>3, RequirementsAssumption
    <3>2. /\ Floor(c.v) = <<a, b, n>> /\ Above(c.v) = <<a, b, n + 1>> /\ TildeHigh(c.v) = <<a, b + 1, 0>>
          /\ <<c.v[1], OrZero(c.v[2]), OrZero(c.v[3]) + 1>> = <<a, b, n + 1>>
      BY <3>1 DEF Floor, Above, OrZero, TildeHigh
    <3>3. Pinned(c.v) = IF a > 0 THEN 1 ELSE IF b > 0 THEN 2 ELSE 3
      BY <3>1 DEF Pinned
    <3>4. CaretHigh(c.v) = IF a > 0 THEN <<a + 1, 0, 0>> ELSE IF b > 0 THEN <<0, b + 1, 0>> ELSE <<0, 0, n + 1>>
      <4>1. CASE a > 0
        BY <3>1, <4>1 DEF CaretHigh
      <4>2. CASE a = 0 /\ b > 0
        BY <3>1, <4>2 DEF CaretHigh
      <4>3. CASE a = 0 /\ b = 0
        BY <3>1, <3>2, <4>3 DEF CaretHigh
      <4>4. QED
        BY <4>1, <4>2, <4>3
    <3>5. QED
      BY <3>2, <3>3, <3>4
  <2>2. /\ Shares(c.v, v, 1) <=> a = x
        /\ Shares(c.v, v, 2) <=> (a = x /\ b = y)
        /\ Shares(c.v, v, 3) <=> (a = x /\ b = y /\ n = z)
    BY <1>3, RequirementsAssumption DEF Shares
  <2>3. c.op \in Operators
    OBVIOUS
  <2>4. CASE c.op = ""
    <3>1. Low(c) = <<a, b, n>> /\ High(c) = <<a, b, n + 1>>
      BY <2>1, <2>4 DEF Low, High
    <3>2. Means(c, v) <=> (a = x /\ b = y /\ n = z)
      BY <2>1, <2>2, <2>4 DEF Means
    <3>3. QED
      BY <2>1, <3>1, <3>2 DEF Admits, Bounds, AtMost, Less
  <2>5. CASE c.op = "="
    <3>1. Low(c) = <<a, b, n>> /\ High(c) = <<a, b, n + 1>>
      BY <2>1, <2>5 DEF Low, High
    <3>2. Means(c, v) <=> (a = x /\ b = y /\ n = z)
      BY <2>1, <2>2, <2>5 DEF Means
    <3>3. QED
      BY <2>1, <3>1, <3>2 DEF Admits, Bounds, AtMost, Less
  <2>6. CASE c.op = "^"
    <3>1. Low(c) = <<a, b, n>> /\ High(c) = (IF a > 0 THEN <<a + 1, 0, 0>> ELSE IF b > 0 THEN <<0, b + 1, 0>> ELSE <<0, 0, n + 1>>)
      BY <2>1, <2>6 DEF Low, High
    <3>2. Means(c, v) <=> AtMost(<<a, b, n>>, v) /\ (a = x /\ (a > 0 \/ (b = y /\ (b > 0 \/ n = z))))
      BY <2>1, <2>2, <2>6 DEF Means
    <3>3. QED
      BY <2>1, <3>1, <3>2 DEF Admits, Bounds, AtMost, Less
  <2>7. CASE c.op = "~"
    <3>1. Low(c) = <<a, b, n>> /\ High(c) = <<a, b + 1, 0>>
      BY <2>1, <2>7 DEF Low, High
    <3>2. Means(c, v) <=> AtMost(<<a, b, n>>, v) /\ a = x /\ b = y
      BY <2>1, <2>2, <2>7 DEF Means
    <3>3. QED
      BY <2>1, <3>1, <3>2 DEF Admits, Bounds, AtMost, Less
  <2>8. CASE c.op = ">"
    <3>1. Low(c) = <<a, b, n + 1>> /\ High(c) = <<UNLIMITED, 0, 0>>
      BY <2>1, <2>8 DEF Low, High
    <3>2. Means(c, v) <=> AtMost(<<a, b, n>>, v) /\ ~(a = x /\ b = y /\ n = z)
      BY <2>1, <2>2, <2>8 DEF Means
    <3>3. QED
      BY <2>1, <3>1, <3>2 DEF Admits, Bounds, AtMost, Less
  <2>9. CASE c.op = ">="
    <3>1. Low(c) = <<a, b, n>> /\ High(c) = <<UNLIMITED, 0, 0>>
      BY <2>1, <2>9 DEF Low, High
    <3>2. Means(c, v) <=> AtMost(<<a, b, n>>, v)
      BY <2>1, <2>2, <2>9 DEF Means
    <3>3. QED
      BY <2>1, <3>1, <3>2 DEF Admits, Bounds, AtMost, Less
  <2>10. CASE c.op = "<"
    <3>1. Low(c) = <<0, 0, 0>> /\ High(c) = <<a, b, n>>
      BY <2>1, <2>10 DEF Low, High
    <3>2. Means(c, v) <=> Less(v, <<a, b, n>>)
      BY <2>1, <2>2, <2>10 DEF Means
    <3>3. QED
      BY <2>1, <3>1, <3>2 DEF Admits, Bounds, AtMost, Less
  <2>11. CASE c.op = "<="
    <3>1. Low(c) = <<0, 0, 0>> /\ High(c) = <<a, b, n + 1>>
      BY <2>1, <2>11 DEF Low, High
    <3>2. Means(c, v) <=> Less(v, <<a, b, n>>) \/ (a = x /\ b = y /\ n = z)
      BY <2>1, <2>2, <2>11 DEF Means
    <3>3. QED
      BY <2>1, <3>1, <3>2 DEF Admits, Bounds, AtMost, Less
  <2>12. QED
    BY <2>3, <2>4, <2>5, <2>6, <2>7, <2>8, <2>9, <2>10, <2>11 DEF Operators
<1>4. QED
  BY <1>1, <1>2, <1>3, IntervalShapes

-----------------------------------------------------------------------------
(* Comparators together: intersections and spans of intervals.              *)

LEMMA LessIsAnOrder ==
    /\ \A a, b, c \in Version : Less(a, b) /\ Less(b, c) => Less(a, c)
    /\ \A a, b \in Version : a # b => Less(a, b) \/ Less(b, a)
    /\ \A a, b \in Version : ~(Less(a, b) /\ (a = b \/ Less(b, a)))
BY DEF Version, Less

LEMMA MeetIsBoth ==
    ASSUME NEW i \in Version \X Version, NEW j \in Version \X Version, NEW v \in Version
    PROVE  /\ Meet(i, j) \in Version \X Version
           /\ Admits(Meet(i, j), v) <=> Admits(i, v) /\ Admits(j, v)
<1>1. /\ Greater(i[1], j[1]) \in Version /\ Lesser(i[2], j[2]) \in Version
  BY DEF Greater, Lesser
<1>2. AtMost(Greater(i[1], j[1]), v) <=> AtMost(i[1], v) /\ AtMost(j[1], v)
  BY LessIsAnOrder DEF Greater, AtMost
<1>3. Less(v, Lesser(i[2], j[2])) <=> Less(v, i[2]) /\ Less(v, j[2])
  BY LessIsAnOrder DEF Lesser
<1>4. QED
  BY <1>1, <1>2, <1>3 DEF Meet, Admits

LEMMA SpanHasEach ==
    ASSUME NEW i \in Version \X Version, NEW j \in Version \X Version, NEW v \in Version
    PROVE  /\ Span(i, j) \in Version \X Version /\ Span(i, i) = i
           /\ Admits(i, v) \/ Admits(j, v) => Admits(Span(i, j), v)
<1>1. /\ Lesser(i[1], j[1]) \in Version /\ Greater(i[2], j[2]) \in Version
  BY DEF Greater, Lesser
<1>2. AtMost(i[1], v) \/ AtMost(j[1], v) => AtMost(Lesser(i[1], j[1]), v)
  BY LessIsAnOrder DEF Lesser, AtMost
<1>3. Less(v, i[2]) \/ Less(v, j[2]) => Less(v, Greater(i[2], j[2]))
  BY LessIsAnOrder DEF Greater
<1>4. Span(i, i) = i
  BY DEF Span, Lesser, Greater
<1>5. QED
  BY <1>1, <1>2, <1>3, <1>4 DEF Span, Admits

LEMMA BoundsAreVersions ==
    ASSUME NEW c \in [op : Operators, v : WrittenPart]
    PROVE  Bounds(c) \in Version \X Version
<1>1. Floor(c.v) \in Version /\ Above(c.v) \in Version /\ TildeHigh(c.v) \in Version
  BY RequirementsAssumption DEF Floor, Above, TildeHigh, OrZero, WrittenPart, Version
<1>2. CaretHigh(c.v) \in Version
  <2>1. c.v[1] \in Nat /\ (c.v[1] > 0 \/ c.v[1] = 0)
    BY DEF WrittenPart
  <2>2. CASE c.v[1] > 0
    BY <2>1, <2>2 DEF CaretHigh, Version
  <2>3. CASE c.v[1] = 0 /\ c.v[2] \notin {AnyPart, 0}
    BY <2>3 DEF CaretHigh, Version, WrittenPart
  <2>4. CASE c.v[1] = 0 /\ c.v[2] \in {AnyPart, 0}
    BY <1>1, <2>4 DEF CaretHigh
  <2>5. QED
    BY <2>1, <2>2, <2>3, <2>4
<1>3. <<c.v[1], OrZero(c.v[2]), OrZero(c.v[3]) + 1>> \in Version
  BY DEF WrittenPart, OrZero, Version
<1>4. <<UNLIMITED, 0, 0>> \in Version /\ <<0, 0, 0>> \in Version
  BY DEF UNLIMITED, Version
<1>5. Low(c) \in Version
  BY <1>1, <1>4 DEF Low
<1>6. High(c) \in Version
  BY <1>1, <1>2, <1>3, <1>4 DEF High, Operators
<1>7. QED
  BY <1>5, <1>6 DEF Bounds

LEMMA WrittenIs == Written \subseteq [op : Operators, v : WrittenPart]
BY RequirementsAssumption DEF Written, Parts, WrittenPart

\* The interval of a branch of one comparator or two.
LEMMA BranchIs ==
    ASSUME NEW c \in Written, NEW d \in Written, NEW v \in Version
    PROVE  /\ FoldMeet({c, d}) \in Version \X Version
           /\ FoldMeet({c, d})[1] \in {Low(c), Low(d)}
           /\ Admits(FoldMeet({c, d}), v) <=> Admits(Bounds(c), v) /\ Admits(Bounds(d), v)
<1> DEFINE branch == {c, d}
           cs == CHOOSE pair \in branch \X branch : branch = {pair[1], pair[2]}
<1>1. <<c, d>> \in branch \X branch /\ branch = {<<c, d>>[1], <<c, d>>[2]}
  OBVIOUS
<1>2. cs \in branch \X branch /\ branch = {cs[1], cs[2]}
  BY <1>1
<1>3. FoldMeet(branch) = Meet(Bounds(cs[1]), Bounds(cs[2]))
  BY DEF FoldMeet
<1> HIDE DEF cs
<1>4. cs[1] \in {c, d} /\ cs[2] \in {c, d} /\ {cs[1], cs[2]} = {c, d}
  BY <1>2
<1> HIDE DEF branch
<1>5. Bounds(c) \in Version \X Version /\ Bounds(d) \in Version \X Version
  BY WrittenIs, BoundsAreVersions
<1>6. Bounds(cs[1]) \in Version \X Version /\ Bounds(cs[2]) \in Version \X Version
  BY <1>4, <1>5
<1>7. /\ FoldMeet(branch) \in Version \X Version
      /\ Admits(FoldMeet(branch), v) <=> Admits(Bounds(cs[1]), v) /\ Admits(Bounds(cs[2]), v)
  BY <1>3, <1>6, MeetIsBoth
<1>8. Admits(Bounds(cs[1]), v) /\ Admits(Bounds(cs[2]), v) <=> Admits(Bounds(c), v) /\ Admits(Bounds(d), v)
  BY <1>4
<1>9. FoldMeet(branch)[1] \in {Low(c), Low(d)}
  BY <1>3, <1>4 DEF Meet, Bounds, Greater
<1>10. QED
  BY <1>7, <1>8, <1>9 DEF branch

\* The shapes a requirement has: one comparator, two of a branch, or two branches of one.
RangeShape == \E c, d \in Written : range = {{c, d}} \/ range = {{c}, {d}}

LEMMA LineIs ==
    /\ Line[1] \in Nat /\ Line[2] \in Nat /\ Line[1] < UNLIMITED
    /\ OnLine \in Written
<1>1. Line[1] \in 0..MaxPart /\ Line[2] \in 0..MaxPart /\ MaxPart < UNLIMITED
  BY FamilyVersionsAssumption
<1>2. UNLIMITED \in Nat
  BY DEF UNLIMITED
<1>3. Line[1] \in Nat /\ Line[2] \in Nat /\ Line[1] < UNLIMITED
  BY <1>1, <1>2, RequirementsAssumption
<1>4. OnLine \in Written
  BY <1>1 DEF OnLine, Written, Operators, Parts
<1>5. QED
  BY <1>3, <1>4

LEMMA IntervalIs ==
    ASSUME RangeShape
    PROVE  /\ Interval \in Version \X Version
           /\ \A branch \in range : /\ FoldMeet(branch) \in Version \X Version
                                    /\ range = {branch} => Interval = FoldMeet(branch)
           /\ \A v \in Version, branch \in range : Admits(FoldMeet(branch), v) => Admits(Interval, v)
<1> DEFINE bs == CHOOSE pair \in range \X range : range = {pair[1], pair[2]}
<1>1. \A branch \in range : \E c, d \in Written : branch = {c, d}
  <2>1. \A c : {c} = {c, c}
    OBVIOUS
  <2>2. QED
    BY <2>1 DEF RangeShape
<1>2. \A branch \in range : FoldMeet(branch) \in Version \X Version
  <2>1. SUFFICES ASSUME NEW branch \in range PROVE FoldMeet(branch) \in Version \X Version
    OBVIOUS
  <2>2. PICK c \in Written, d \in Written : branch = {c, d}
    BY <1>1
  <2>3. <<0, 0, 0>> \in Version
    BY DEF Version
  <2>4. QED
    BY <2>2, <2>3, BranchIs
<1>3. \E a, b \in range : range = {a, b}
  <2>1. PICK c \in Written, d \in Written : range = {{c, d}} \/ range = {{c}, {d}}
    BY DEF RangeShape
  <2>2. CASE range = {{c, d}}
    <3>1. {c, d} \in range /\ range = {{c, d}, {c, d}}
      BY <2>2
    <3>2. QED
      BY <3>1
  <2>3. CASE range = {{c}, {d}}
    <3>1. {c} \in range /\ {d} \in range
      BY <2>3
    <3>2. QED
      BY <2>3, <3>1
  <2>4. QED
    BY <2>1, <2>2, <2>3
<1>4. \E pair \in range \X range : range = {pair[1], pair[2]}
  <2>1. PICK a \in range, b \in range : range = {a, b}
    BY <1>3
  <2>2. <<a, b>> \in range \X range /\ range = {<<a, b>>[1], <<a, b>>[2]}
    BY <2>1
  <2>3. QED
    BY <2>2
<1>5. bs \in range \X range /\ range = {bs[1], bs[2]}
  BY <1>4
<1>6. Interval = Span(FoldMeet(bs[1]), FoldMeet(bs[2]))
  BY DEF Interval
<1> HIDE DEF bs
<1>7. bs[1] \in range /\ bs[2] \in range
  BY <1>5
<1>8. ASSUME NEW v \in Version
      PROVE  /\ Interval \in Version \X Version
             /\ Span(FoldMeet(bs[1]), FoldMeet(bs[1])) = FoldMeet(bs[1])
             /\ Admits(FoldMeet(bs[1]), v) \/ Admits(FoldMeet(bs[2]), v) => Admits(Interval, v)
  BY <1>2, <1>6, <1>7, SpanHasEach
<1>9. Interval \in Version \X Version /\ Span(FoldMeet(bs[1]), FoldMeet(bs[1])) = FoldMeet(bs[1])
  <2>1. <<0, 0, 0>> \in Version
    BY DEF Version
  <2>2. QED
    BY <1>8, <2>1
<1>10. ASSUME NEW branch \in range, range = {branch}
       PROVE  Interval = FoldMeet(branch)
  <2>1. bs[1] = branch /\ bs[2] = branch
    BY <1>7, <1>10
  <2>2. QED
    BY <1>6, <1>9, <2>1
<1>11. \A v \in Version, branch \in range : Admits(FoldMeet(branch), v) => Admits(Interval, v)
  BY <1>5, <1>8
<1>12. QED
  BY <1>2, <1>9, <1>10, <1>11

\* The comparators _bounds reads as they are meant.
ReadRight == \A c \in UNION range : c.op = "<=" => c.v[3] # AnyPart

LEMMA BranchMeans ==
    ASSUME RangeShape, ReadRight, NEW branch \in range, NEW patch \in Nat
    PROVE  (\A c \in branch : Means(c, <<Line[1], Line[2], patch>>))
              <=> Admits(FoldMeet(branch), <<Line[1], Line[2], patch>>)
<1> DEFINE v == <<Line[1], Line[2], patch>>
<1>1. Line[1] \in Nat /\ Line[1] < UNLIMITED /\ Line[2] \in Nat /\ v \in Version
  BY LineIs DEF Version
<1>2. PICK c \in Written, d \in Written : branch = {c, d}
  <2>1. \A c : {c} = {c, c}
    OBVIOUS
  <2>2. QED
    BY <2>1 DEF RangeShape
<1>3. /\ Means(c, v) <=> Admits(Bounds(c), v)
      /\ Means(d, v) <=> Admits(Bounds(d), v)
  BY <1>1, <1>2, WrittenIs, OneComparator DEF ReadRight
<1>4. QED
  BY <1>1, <1>2, <1>3, BranchIs

LEMMA BlameOnlyOffTheLine ==
    ASSUME RangeShape, ReadRight, SomeOnTheLine
    PROVE  OnTheLine
<1>1. PICK patch \in 0..(MaxPart + 2), branch \in range :
         \A c \in branch : Means(c, <<Line[1], Line[2], patch>>)
  BY DEF SomeOnTheLine
<1> DEFINE v == <<Line[1], Line[2], patch>>
<1>2. patch \in Nat /\ v \in Version /\ LineLow \in Version /\ LineHigh \in Version
  BY RequirementsAssumption, LineIs DEF Version, LineLow, LineHigh
<1>3. Admits(Interval, v)
  BY <1>1, <1>2, BranchMeans, IntervalIs
<1>4. AtMost(LineLow, v) /\ Less(v, LineHigh)
  BY <1>2, LineIs DEF LineLow, LineHigh, AtMost, Less
<1>5. Interval[1] \in Version /\ Interval[2] \in Version
  BY IntervalIs
<1> HIDE DEF v
<1>6. AtMost(Greater(Interval[1], LineLow), v) /\ Less(v, Lesser(Interval[2], LineHigh))
  BY <1>3, <1>4 DEF Admits, Greater, Lesser
<1>7. Greater(Interval[1], LineLow) \in Version /\ Lesser(Interval[2], LineHigh) \in Version
  BY <1>2, <1>5 DEF Greater, Lesser
<1>8. QED
  BY <1>2, <1>6, <1>7, LessIsAnOrder DEF AtMost, OnTheLine, Intersects

\* What the lower end of an interval ends in is at most one above what is written.
LEMMA LowPatch ==
    ASSUME NEW c \in Written
    PROVE  Low(c)[3] \in 0..(MaxPart + 1)
<1>1. c.v[3] \in Parts \cup {AnyPart} /\ c.op \in Operators
  BY DEF Written
<1>2. /\ Floor(c.v)[3] \in 0..(MaxPart + 1)
      /\ Above(c.v)[3] \in 0..(MaxPart + 1)
  BY <1>1, RequirementsAssumption DEF Floor, Above, OrZero, Parts
<1>3. QED
  BY <1>1, <1>2, RequirementsAssumption DEF Low

LEMMA OffTheLineIsBlamed ==
    ASSUME RangeShape, ReadRight, NEW branch, range = {branch}, OnTheLine
    PROVE  SomeOnTheLine
<1> DEFINE i == FoldMeet(branch)
           w == Greater(i[1], LineLow)
<1>1. PICK c \in Written, d \in Written : branch = {c, d}
  <2>1. \A c : {c} = {c, c}
    OBVIOUS
  <2>2. branch \in range
    OBVIOUS
  <2>3. QED
    BY <2>1, <2>2 DEF RangeShape
<1>2. Interval = i /\ i[1] \in Version /\ i[2] \in Version
  BY IntervalIs
<1>3. LineLow \in Version /\ LineHigh \in Version
  BY LineIs DEF Version, LineLow, LineHigh
<1>4. i[1] \in {Low(c), Low(d)}
  <2>1. <<0, 0, 0>> \in Version
    BY DEF Version
  <2>2. QED
    BY <1>1, <2>1, BranchIs
<1> HIDE DEF i
<1>5. Less(w, Lesser(i[2], LineHigh))
  BY <1>2 DEF OnTheLine, Intersects
<1>6. w \in Version /\ w \in {i[1], LineLow} /\ AtMost(i[1], w) /\ AtMost(LineLow, w)
  BY <1>2, <1>3, LessIsAnOrder DEF Greater, AtMost
<1>7. w[3] \in 0..(MaxPart + 1)
  BY <1>4, <1>6, LowPatch, RequirementsAssumption DEF LineLow
<1> HIDE DEF w
<1>8. Less(w, i[2]) /\ Less(w, LineHigh)
  BY <1>2, <1>3, <1>5, <1>6, LessIsAnOrder DEF Lesser
<1>9. w = <<Line[1], Line[2], w[3]>>
  BY <1>6, <1>8, LineIs DEF LineLow, LineHigh, AtMost, Less, Version
<1>10. Admits(i, w)
  BY <1>6, <1>8 DEF Admits
<1>11. \A x \in branch : Means(x, <<Line[1], Line[2], w[3]>>)
  BY <1>7, <1>9, <1>10, BranchMeans, RequirementsAssumption DEF i
<1>12. QED
  BY <1>7, <1>11, RequirementsAssumption DEF SomeOnTheLine

-----------------------------------------------------------------------------
(* The check of one repository.                                             *)

FoundLevel == IF declared.track = "cargo" THEN CargoLevel(declared) ELSE NpmLevel(declared)
Welded     == Weldable(declared) /\ WeldActive
LevelNow   == IF Welded THEN "ok" ELSE FoundLevel
ReportOf(strict) ==
    [level |-> LevelNow, welded |-> Welded, locks |-> LockWarning,
     exit |-> IF \/ LevelNow = "violation"
                 \/ strict /\ (LevelNow = "warning" \/ LockWarning)
              THEN "1" ELSE "0"]

\* The report, if there is one, is of the manifests and the day as they are.
FamilyInv ==
    /\ RangeShape
    /\ report = NoReport \/ \E strict \in BOOLEAN : report = ReportOf(strict)

LEMMA FamilyStart == FamilyVersionsInit => FamilyInv
<1>1. SUFFICES ASSUME FamilyVersionsInit PROVE FamilyInv
  OBVIOUS
<1>2. RangeShape
  <2>1. range = {{OnLine, OnLine}}
    BY <1>1 DEF FamilyVersionsInit
  <2>2. QED
    BY <2>1, LineIs DEF RangeShape
<1>3. QED
  BY <1>1, <1>2 DEF FamilyVersionsInit, FamilyInv

LEMMA SameReport ==
    ASSUME UNCHANGED <<declared, range, locked, day, weldUntil>>, NEW strict \in BOOLEAN
    PROVE  ReportOf(strict)' = ReportOf(strict)
BY DEF ReportOf, LevelNow, Welded, FoundLevel, LockWarning, Weldable, WeldActive, OffTheLine,
   OnTheLine, Interval, CargoLevel, NpmLevel

LEMMA FamilyInvStep ==
    ASSUME FamilyInv, [FamilyVersionsNext]_familyVars
    PROVE  FamilyInv'
<1>1. ASSUME NEW e \in Written, Narrow(e) \/ Alternate(e)
      PROVE  FamilyInv'
  <2>1. PICK c \in Written, d \in Written : range = {{c, d}} \/ range = {{c}, {d}}
    BY DEF FamilyInv, RangeShape
  <2>2. UNION range = {c, d} /\ Cardinality(UNION range) = 1
    <3>1. Cardinality(UNION range) = 1
      BY <1>1 DEF Narrow, Alternate, Paired, OnTheDay
    <3>2. UNION {{c, d}} = {c, d} /\ UNION {{c}, {d}} = {c, d}
      OBVIOUS
    <3>3. QED
      BY <2>1, <3>1, <3>2
  <2>3. IsFiniteSet(UNION range)
    <3>1. IsFiniteSet({c}) /\ {c, d} = {c} \cup {d}
      BY FS_Singleton
    <3>2. QED
      BY <2>2, <3>1, FS_AddElement
  <2>4. PICK x : UNION range = {x}
    BY <2>2, <2>3, FS_Singleton
  <2>5. c = x /\ d = x /\ range = {{x}}
    BY <2>1, <2>2, <2>4
  <2>6. range' = {{x, e}} \/ range' = {{x}, {e}}
    <3>1. CASE Narrow(e)
      <4>1. range' = {(UNION range) \cup {e}}
        BY <3>1 DEF Narrow
      <4>2. (UNION range) \cup {e} = {x, e}
        BY <2>4
      <4>3. range' = {{x, e}}
        BY <4>1, <4>2
      <4>4. QED
        BY <4>3
    <3>2. CASE Alternate(e)
      <4>1. range' = range \cup {{e}}
        BY <3>2 DEF Alternate
      <4>2. range \cup {{e}} = {{x}, {e}}
        BY <2>5
      <4>3. range' = {{x}, {e}}
        BY <4>1, <4>2
      <4>4. QED
        BY <4>3
    <3>3. QED
      BY <1>1, <3>1, <3>2
  <2>7. report' = NoReport
    BY <1>1 DEF Narrow, Alternate
  <2>8. QED
    BY <2>5, <2>6, <2>7 DEF FamilyInv, RangeShape
<1>2. CASE Declare
  <2>1. PICK c \in Written : range' = {{c}}
    BY <1>2 DEF Declare
  <2>2. range' = {{c, c}} /\ report' = NoReport
    BY <1>2, <2>1 DEF Declare
  <2>3. QED
    BY <2>2 DEF FamilyInv, RangeShape
<1>3. CASE Relock \/ DayPasses
  BY <1>3 DEF Relock, DayPasses, FamilyInv, RangeShape
<1>4. CASE Check
  <2>1. UNCHANGED <<declared, range, locked, day, weldUntil>> /\ RangeShape'
    BY <1>4 DEF Check, FamilyInv, RangeShape
  <2>2. \E strict \in BOOLEAN : report' = ReportOf(strict)
    <3>1. PICK strict \in BOOLEAN :
            report' = LET found  == IF declared.track = "cargo" THEN CargoLevel(declared) ELSE NpmLevel(declared)
                          welded == Weldable(declared) /\ WeldActive
                          level  == IF welded THEN "ok" ELSE found
                      IN  [level |-> level, welded |-> welded, locks |-> LockWarning,
                           exit |-> IF \/ level = "violation"
                                       \/ strict /\ (level = "warning" \/ LockWarning)
                                    THEN "1" ELSE "0"]
      BY <1>4 DEF Check
    <3>2. report' = ReportOf(strict)
      BY <3>1 DEF ReportOf, LevelNow, Welded, FoundLevel
    <3>3. QED
      BY <3>2
  <2>3. \E strict \in BOOLEAN : report' = ReportOf(strict)'
    BY <2>1, <2>2, SameReport
  <2>4. QED
    BY <2>1, <2>3 DEF FamilyInv
<1>5. CASE UNCHANGED familyVars
  <2>1. UNCHANGED <<declared, range, locked, day, weldUntil, report>>
    BY <1>5 DEF familyVars
  <2>2. RangeShape'
    BY <2>1 DEF FamilyInv, RangeShape
  <2>3. QED
    BY <2>1, <2>2, SameReport DEF FamilyInv
<1>6. QED
  BY <1>1, <1>2, <1>3, <1>4, <1>5 DEF FamilyVersionsNext

LEMMA BlameDeserved ==
    ASSUME FamilyInv
    PROVE  BlameIsDeserved
<1> DEFINE blamed == report.level = "violation" \/ report.welded
<1>1. SUFFICES ASSUME report.exit # "none", declared.track = "cargo", Examined(declared),
                      declared.family = "plana" => declared.published, ReadRight
               PROVE  /\ blamed => ~SomeOnTheLine
                      /\ Cardinality(range) = 1 => (~SomeOnTheLine => blamed)
                      /\ blamed /\ report.exit = "0" => WeldActive
  BY DEF BlameIsDeserved, ReadRight
<1>2. PICK strict \in BOOLEAN : report = ReportOf(strict)
  BY <1>1 DEF FamilyInv, NoReport
<1>3. declared.path = "none" /\ declared.git = "none" /\ declared.requirement = "range"
  BY <1>1 DEF Examined
<1>4. FoundLevel = IF OnTheLine THEN "ok" ELSE "violation"
  BY <1>1, <1>3 DEF FoundLevel, CargoLevel, OffTheLine
<1>5. Welded <=> ~OnTheLine /\ WeldActive
  BY <1>1, <1>3 DEF Welded, Weldable, OffTheLine
<1>6. /\ report.level = LevelNow /\ report.welded = Welded
      /\ report.exit = "0" => LevelNow # "violation"
  <2>1. /\ report.level = LevelNow /\ report.welded = Welded
        /\ report.exit = IF \/ LevelNow = "violation"
                            \/ strict /\ (LevelNow = "warning" \/ LockWarning)
                         THEN "1" ELSE "0"
    BY <1>2, Zenon DEF ReportOf
  <2>2. QED
    BY <2>1
<1>7. blamed <=> ~OnTheLine
  BY <1>4, <1>5, <1>6 DEF LevelNow
<1>8. blamed /\ report.exit = "0" => WeldActive
  BY <1>4, <1>5, <1>6, <1>7 DEF LevelNow
<1>9. ASSUME Cardinality(range) = 1, OnTheLine
      PROVE  SomeOnTheLine
  <2>1. PICK c \in Written, d \in Written : range = {{c, d}} \/ range = {{c}, {d}}
    BY DEF FamilyInv, RangeShape
  <2>2. IsFiniteSet(range)
    <3>1. IsFiniteSet({{c, d}}) /\ IsFiniteSet({{c}})
      BY FS_Singleton
    <3>2. IsFiniteSet({{c}} \cup {{d}})
      BY <3>1, FS_AddElement
    <3>3. {{c}, {d}} = {{c}} \cup {{d}}
      OBVIOUS
    <3>4. QED
      BY <2>1, <3>1, <3>2, <3>3
  <2>3. PICK branch : range = {branch}
    BY <1>9, <2>2, FS_Singleton
  <2>4. QED
    BY <1>1, <1>9, <2>3, OffTheLineIsBlamed DEF FamilyInv
<1>10. blamed => ~SomeOnTheLine
  BY <1>1, <1>7, BlameOnlyOffTheLine DEF FamilyInv
<1>11. QED
  BY <1>7, <1>8, <1>9, <1>10

-----------------------------------------------------------------------------
(* acyclic-imports: the search, as the invariant of a depth-first search.   *)

LEMMA HasLeast ==
    ASSUME NEW T \in SUBSET Nat, T # {}
    PROVE  \E x \in T : \A y \in T : x <= y
<1> DEFINE R == {ss \in Nat \X Nat : ss[1] < ss[2]}
<1>1. IsWellFoundedOn(R, Nat)
  BY NatLessThanWellFounded DEF OpToRel
<1> HIDE DEF R
<1>2. PICK x \in T : \A y \in T : ~ (<<y, x>> \in R)
  BY <1>1, WFMin, Zenon
<1>3. ASSUME NEW y \in T PROVE x <= y
  <2>1. <<y, x>> \in Nat \X Nat /\ <<y, x>>[1] = y /\ <<y, x>>[2] = x
    OBVIOUS
  <2>2. ~(y < x)
    BY <1>2, <2>1 DEF R
  <2>3. QED
    BY <2>2
<1>4. QED
  BY <1>3

\* The path is one of imports that are still looked at, and has what is visited and not done.
PathSound ==
    /\ importPath \in Seq(StyleModules)
    /\ \A i, j \in 1..Len(importPath) : importPath[i] = importPath[j] => i = j
    /\ \A i \in 1..(Len(importPath) - 1) : importPath[i + 1] \in targetsLeft[importPath[i]]
    /\ \A m \in StyleModules : visited[m] = 1 <=> \E i \in 1..Len(importPath) : importPath[i] = m

\* What has been looked at leads to what is done, unless a cycle was reported.
LeftSound ==
    /\ \A m \in StyleModules : /\ targetsLeft[m] \subseteq Adjacent(m)
                               /\ visited[m] = 2 => targetsLeft[m] = {}
    /\ cyclesFound = {} =>
          \A m \in StyleModules : visited[m] # 0 =>
              \A n \in Adjacent(m) \ targetsLeft[m] : visited[n] = 2

\* The modules that are done can be numbered so that every import goes down.
Done == {m \in StyleModules : visited[m] = 2}
DoneIsRanked ==
    cyclesFound = {} =>
        \E rank \in [Done -> 1..Cardinality(Done)] :
            \A m \in Done : \A n \in Adjacent(m) : n \in Done /\ rank[n] < rank[m]

CyclesAreThere ==
    \A cycle \in cyclesFound : /\ cycle # {} /\ cycle \subseteq StyleModules
                               /\ \A m \in cycle : Adjacent(m) \cap cycle # {}

ImportsInv ==
    /\ visited \in [StyleModules -> 0..2] /\ targetsLeft \in [StyleModules -> SUBSET StyleModules]
    /\ PathSound /\ LeftSound /\ DoneIsRanked /\ CyclesAreThere

LEMMA SameImports ==
    ASSUME UNCHANGED importLines, NEW m
    PROVE  Adjacent(m)' = Adjacent(m)
BY DEF Adjacent

LEMMA AdjacentAreModules == \A m : Adjacent(m) \subseteq StyleModules
BY DEF Adjacent

LEMMA ImportsStart == ImportsInit => ImportsInv
<1>1. SUFFICES ASSUME ImportsInit PROVE ImportsInv
  OBVIOUS
<1>2. /\ visited = [m \in StyleModules |-> 0] /\ importPath = <<>>
      /\ targetsLeft = [m \in StyleModules |-> {}] /\ cyclesFound = {}
  BY <1>1 DEF ImportsInit
<1>3. Done = {}
  BY <1>2 DEF Done
<1>4. DoneIsRanked
  <2>1. [m \in Done |-> 0] \in [Done -> 1..Cardinality(Done)]
    BY <1>3
  <2>2. QED
    BY <1>3, <2>1 DEF DoneIsRanked
<1>5. QED
  BY <1>2, <1>4 DEF ImportsInv, PathSound, LeftSound, CyclesAreThere

\* What is ranked stays so while nothing else is done.
LEMMA RankStays ==
    ASSUME DoneIsRanked, Done' = Done, UNCHANGED importLines, cyclesFound' = {} => cyclesFound = {}
    PROVE  DoneIsRanked'
<1>1. SUFFICES ASSUME cyclesFound' = {}
               PROVE  \E rank \in [Done -> 1..Cardinality(Done)] :
                         \A m \in Done : \A n \in Adjacent(m)' : n \in Done /\ rank[n] < rank[m]
  BY DEF DoneIsRanked
<1>2. QED
  BY <1>1, SameImports DEF DoneIsRanked

LEMMA VisitModuleStep ==
    ASSUME ImportsInv, NEW name \in StyleModules, VisitModule(name),
           importPath = <<>> \/ name \in targetsLeft[Last(importPath)]
    PROVE  ImportsInv'
<1> DEFINE len == Len(importPath)
<1>1. /\ visited[name] = 0 /\ visited' = [visited EXCEPT ![name] = 1]
      /\ importPath' = Append(importPath, name)
      /\ targetsLeft' = [targetsLeft EXCEPT ![name] = Adjacent(name)]
      /\ UNCHANGED <<importLines, cyclesFound>>
  BY DEF VisitModule
<1>2. /\ visited \in [StyleModules -> 0..2] /\ targetsLeft \in [StyleModules -> SUBSET StyleModules]
      /\ importPath \in Seq(StyleModules) /\ len \in Nat
  BY DEF ImportsInv, PathSound
<1>3. /\ visited'[name] = 1 /\ \A m \in StyleModules \ {name} : visited'[m] = visited[m]
      /\ targetsLeft'[name] = Adjacent(name)
      /\ \A m \in StyleModules \ {name} : targetsLeft'[m] = targetsLeft[m]
      /\ visited' \in [StyleModules -> 0..2] /\ targetsLeft' \in [StyleModules -> SUBSET StyleModules]
  BY <1>1, <1>2, AdjacentAreModules
<1>4. /\ importPath' \in Seq(StyleModules) /\ Len(importPath') = len + 1
      /\ \A i \in 1..len : importPath'[i] = importPath[i]
      /\ importPath'[len + 1] = name
  BY <1>1, <1>2
<1>5. \A i \in 1..len : importPath[i] \in StyleModules /\ importPath[i] # name
  BY <1>1, <1>2 DEF ImportsInv, PathSound
<1>6. PathSound'
  <2>1. \A i, j \in 1..Len(importPath') : importPath'[i] = importPath'[j] => i = j
    <3>1. SUFFICES ASSUME NEW i \in 1..(len + 1), NEW j \in 1..(len + 1), importPath'[i] = importPath'[j]
                   PROVE  i = j
      BY <1>4
    <3>2. i \in 1..len \/ i = len + 1
      BY <1>2
    <3>3. j \in 1..len \/ j = len + 1
      BY <1>2
    <3>4. QED
      BY <1>4, <1>5, <3>1, <3>2, <3>3 DEF ImportsInv, PathSound
  <2>2. ASSUME NEW i \in 1..len
        PROVE  importPath'[i + 1] \in targetsLeft'[importPath'[i]]
    <3>1. importPath'[i] = importPath[i] /\ targetsLeft'[importPath[i]] = targetsLeft[importPath[i]]
      BY <1>3, <1>4, <1>5
    <3>2. CASE i < len
      <4>1. i + 1 \in 1..len /\ i \in 1..(Len(importPath) - 1)
        BY <1>2, <3>2
      <4>2. QED
        BY <1>4, <3>1, <4>1 DEF ImportsInv, PathSound
    <3>3. CASE i = len
      BY <1>2, <1>4, <3>1, <3>3 DEF Last
    <3>4. QED
      BY <1>2, <3>2, <3>3
  <2>3. ASSUME NEW m \in StyleModules
        PROVE  visited'[m] = 1 <=> \E i \in 1..Len(importPath') : importPath'[i] = m
    <3>1. CASE m = name
      BY <1>2, <1>3, <1>4, <3>1
    <3>2. CASE m # name
      <4>1. visited'[m] = 1 <=> \E i \in 1..len : importPath[i] = m
        BY <1>3, <3>2 DEF ImportsInv, PathSound
      <4>2. \A i \in 1..(len + 1) : i \in 1..len \/ i = len + 1
        BY <1>2
      <4>3. 1..len \subseteq 1..(len + 1)
        BY <1>2
      <4>4. QED
        BY <1>4, <3>2, <4>1, <4>2, <4>3
    <3>3. QED
      BY <3>1, <3>2
  <2>4. 1..(Len(importPath') - 1) = 1..len
    BY <1>2, <1>4
  <2>5. QED
    BY <1>4, <2>1, <2>2, <2>3, <2>4 DEF PathSound
<1>7. LeftSound'
  <2>1. ASSUME NEW m \in StyleModules
        PROVE  /\ targetsLeft'[m] \subseteq Adjacent(m)
               /\ visited'[m] = 2 => targetsLeft'[m] = {}
    BY <1>3 DEF ImportsInv, LeftSound
  <2>2. ASSUME cyclesFound = {}, NEW m \in StyleModules, visited'[m] # 0,
               NEW n \in Adjacent(m) \ targetsLeft'[m]
        PROVE  visited'[n] = 2
    <3>1. m # name
      BY <1>3, <2>2
    <3>2. visited[n] = 2 /\ n \in StyleModules
      BY <1>3, <2>2, <3>1, AdjacentAreModules DEF ImportsInv, LeftSound
    <3>3. QED
      BY <1>1, <1>3, <3>2
  <2>3. QED
    BY <1>1, <2>1, <2>2, SameImports DEF LeftSound
<1>8. DoneIsRanked'
  <2>1. Done' = Done
    BY <1>1, <1>3 DEF Done
  <2>2. QED
    BY <1>1, <2>1, RankStays DEF ImportsInv
<1>9. CyclesAreThere'
  BY <1>1, SameImports DEF ImportsInv, CyclesAreThere
<1>10. QED
  BY <1>3, <1>6, <1>7, <1>8, <1>9 DEF ImportsInv

\* The part of the path from a module on it leads back to it through the import looked at.
LEMMA CycleIsThere ==
    ASSUME ImportsInv, importPath # <<>>, NEW target \in targetsLeft[Last(importPath)],
           visited[target] = 1
    PROVE  LET cycle == CycleFrom(target)
           IN  /\ cycle # {} /\ cycle \subseteq StyleModules
               /\ \A m \in cycle : Adjacent(m) \cap cycle # {}
<1> DEFINE len == Len(importPath)
           cycle == CycleFrom(target)
<1>1. importPath \in Seq(StyleModules) /\ len \in Nat /\ len # 0 /\ DOMAIN importPath = 1..len
  BY DEF ImportsInv, PathSound
<1>2. Last(importPath) = importPath[len] /\ importPath[len] \in StyleModules
  BY <1>1 DEF Last
<1>3. target \in StyleModules /\ target \in Adjacent(importPath[len])
  BY <1>2, AdjacentAreModules DEF ImportsInv, LeftSound
<1>4. PICK k \in 1..len : importPath[k] = target
  BY <1>3 DEF ImportsInv, PathSound
<1>5. ASSUME NEW j \in 1..len, k <= j
      PROVE  importPath[j] \in cycle
  <2>1. k \in 1..j
    BY <1>4, <1>5
  <2>2. QED
    BY <1>1, <1>4, <2>1 DEF CycleFrom
<1>6. ASSUME NEW m \in cycle
      PROVE  \E j \in 1..len : k <= j /\ importPath[j] = m
  <2>1. PICK j \in 1..len : importPath[j] = m /\ \E q \in 1..j : importPath[q] = target
    BY <1>1 DEF CycleFrom
  <2>2. PICK q \in 1..j : importPath[q] = target
    BY <2>1
  <2>3. q \in 1..len /\ q <= j
    BY <1>1
  <2>4. q = k
    BY <1>4, <2>2, <2>3 DEF ImportsInv, PathSound
  <2>5. QED
    BY <2>1, <2>3, <2>4
<1>7. target \in cycle
  BY <1>1, <1>4, <1>5
<1>8. cycle \subseteq StyleModules
  BY <1>1 DEF CycleFrom
<1> HIDE DEF cycle
<1>9. ASSUME NEW m \in cycle
      PROVE  Adjacent(m) \cap cycle # {}
  <2>1. PICK j \in 1..len : k <= j /\ importPath[j] = m
    BY <1>6
  <2>2. CASE j = len
    <3>1. importPath[len] = m
      BY <2>1, <2>2
    <3>2. target \in Adjacent(m)
      BY <1>3, <3>1
    <3>3. target \in Adjacent(m) \cap cycle
      BY <1>7, <3>2
    <3>4. QED
      BY <3>3
  <2>3. CASE j < len
    <3>1. j + 1 \in 1..len /\ k <= j + 1 /\ j \in 1..(Len(importPath) - 1)
      BY <1>1, <2>1, <2>3
    <3>2. importPath[j + 1] \in cycle
      BY <1>5, <3>1
    <3>3. importPath[j + 1] \in Adjacent(m)
      BY <1>1, <2>1, <3>1 DEF ImportsInv, PathSound, LeftSound
    <3>4. importPath[j + 1] \in Adjacent(m) \cap cycle
      BY <3>2, <3>3
    <3>5. QED
      BY <3>4
  <2>4. j = len \/ j < len
    BY <1>1, <2>1
  <2>5. QED
    BY <2>2, <2>3, <2>4
<1>10. QED
  BY <1>7, <1>8, <1>9 DEF cycle

LEMMA LookAtStep ==
    ASSUME ImportsInv, NEW target \in StyleModules, LookAt(target)
    PROVE  ImportsInv'
<1> DEFINE top == Last(importPath)
           len == Len(importPath)
<1>1. importPath # <<>> /\ target \in targetsLeft[top]
  BY DEF LookAt
<1>2. CASE visited[target] = 0 /\ VisitModule(target)
  BY <1>1, <1>2, VisitModuleStep
<1>3. CASE visited[target] # 0
  <2>1. /\ targetsLeft' = [targetsLeft EXCEPT ![top] = @ \ {target}]
        /\ cyclesFound' = IF visited[target] = 1 THEN cyclesFound \cup {CycleFrom(target)} ELSE cyclesFound
        /\ UNCHANGED <<importLines, visited, importPath>>
    BY <1>3 DEF LookAt
  <2>2. /\ importPath \in Seq(StyleModules) /\ len \in Nat /\ len # 0 /\ top = importPath[len]
        /\ top \in StyleModules
    BY <1>1 DEF ImportsInv, PathSound, Last
  <2>3. /\ targetsLeft' \in [StyleModules -> SUBSET StyleModules]
        /\ targetsLeft'[top] = targetsLeft[top] \ {target}
        /\ \A m \in StyleModules \ {top} : targetsLeft'[m] = targetsLeft[m]
    BY <2>1, <2>2 DEF ImportsInv
  <2>4. visited[top] = 1
    BY <2>2 DEF ImportsInv, PathSound
  <2>5. PathSound'
    <3>1. ASSUME NEW i \in 1..(len - 1)
          PROVE  importPath[i + 1] \in targetsLeft'[importPath[i]]
      <4>1. i \in 1..len /\ i # len /\ len \in 1..len
        BY <2>2
      <4>2. importPath[i] # top /\ importPath[i] \in StyleModules
        BY <2>2, <4>1 DEF ImportsInv, PathSound
      <4>3. QED
        BY <2>3, <4>2 DEF ImportsInv, PathSound
    <3>2. QED
      BY <2>1, <3>1 DEF ImportsInv, PathSound
  <2>6. LeftSound'
    <3>1. ASSUME NEW m \in StyleModules
          PROVE  /\ targetsLeft'[m] \subseteq Adjacent(m)
                 /\ visited[m] = 2 => targetsLeft'[m] = {}
      BY <2>3, <2>4 DEF ImportsInv, LeftSound
    <3>2. ASSUME cyclesFound' = {}, NEW m \in StyleModules, visited[m] # 0,
                 NEW n \in Adjacent(m) \ targetsLeft'[m]
          PROVE  visited[n] = 2
      <4>1. cyclesFound = {} /\ visited[target] = 2
        BY <1>3, <2>1, <3>2 DEF ImportsInv
      <4>2. CASE n \in targetsLeft[m]
        <5>1. n = target
          BY <2>3, <3>2, <4>2
        <5>2. QED
          BY <4>1, <5>1
      <4>3. CASE n \notin targetsLeft[m]
        BY <3>2, <4>1, <4>3 DEF ImportsInv, LeftSound
      <4>4. QED
        BY <4>2, <4>3
    <3>3. QED
      BY <2>1, <3>1, <3>2, SameImports DEF LeftSound
  <2>7. DoneIsRanked'
    <3>1. Done' = Done
      BY <2>1 DEF Done
    <3>2. QED
      BY <2>1, <3>1, RankStays DEF ImportsInv
  <2>8. CyclesAreThere'
    <3>1. ASSUME NEW cycle \in cyclesFound'
          PROVE  /\ cycle # {} /\ cycle \subseteq StyleModules
                 /\ \A m \in cycle : Adjacent(m) \cap cycle # {}
      <4>1. CASE cycle \in cyclesFound
        BY <4>1 DEF ImportsInv, CyclesAreThere
      <4>2. CASE cycle \notin cyclesFound
        <5>1. visited[target] = 1 /\ cycle = CycleFrom(target)
          BY <2>1, <4>2
        <5>2. QED
          BY <1>1, <5>1, CycleIsThere
      <4>3. QED
        BY <4>1, <4>2
    <3>2. QED
      BY <2>1, <3>1, SameImports DEF CyclesAreThere
  <2>9. QED
    BY <2>1, <2>3, <2>5, <2>6, <2>7, <2>8 DEF ImportsInv
<1>4. QED
  BY <1>2, <1>3 DEF LookAt

LEMMA LeaveModuleStep ==
    ASSUME ImportsInv, IsFiniteSet(StyleModules), LeaveModule
    PROVE  ImportsInv'
<1> DEFINE top == Last(importPath)
           len == Len(importPath)
<1>1. /\ importPath # <<>> /\ targetsLeft[top] = {}
      /\ visited' = [visited EXCEPT ![top] = 2]
      /\ importPath' = Front(importPath)
      /\ UNCHANGED <<importLines, targetsLeft, cyclesFound>>
  BY DEF LeaveModule
<1>2. /\ importPath \in Seq(StyleModules) /\ len \in Nat /\ len # 0 /\ top = importPath[len]
      /\ top \in StyleModules
  BY <1>1 DEF ImportsInv, PathSound, Last
<1>3. /\ importPath' \in Seq(StyleModules) /\ Len(importPath') = len - 1
      /\ \A i \in 1..(len - 1) : importPath'[i] = importPath[i]
  <2>1. importPath' = SubSeq(importPath, 1, len - 1)
    BY <1>1 DEF Front
  <2>2. \A i \in 1..(len - 1) : importPath[i] \in StyleModules
    BY <1>2
  <2>3. /\ SubSeq(importPath, 1, len - 1) \in Seq(StyleModules)
        /\ Len(SubSeq(importPath, 1, len - 1)) = IF 1 <= len - 1 THEN len - 1 - 1 + 1 ELSE 0
        /\ \A i \in 1..(len - 1 - 1 + 1) : SubSeq(importPath, 1, len - 1)[i] = importPath[1 + i - 1]
    BY <1>2, <2>2, SubSeqProperties
  <2>4. Len(importPath') = len - 1
    <3> HIDE DEF len
    <3>1. (IF 1 <= len - 1 THEN len - 1 - 1 + 1 ELSE 0) = len - 1
      BY <1>2
    <3>2. QED
      BY <2>1, <2>3, <3>1, Zenon
  <2>5. ASSUME NEW i \in 1..(len - 1)
        PROVE  importPath'[i] = importPath[i]
    <3>1. i \in 1..(len - 1 - 1 + 1) /\ 1 + i - 1 = i
      BY <1>2
    <3>2. QED
      BY <2>1, <2>3, <3>1
  <2>6. QED
    BY <2>1, <2>3, <2>4, <2>5
<1>4. /\ visited' \in [StyleModules -> 0..2] /\ visited'[top] = 2
      /\ \A m \in StyleModules \ {top} : visited'[m] = visited[m]
  BY <1>1, <1>2 DEF ImportsInv
<1>5. visited[top] = 1
  BY <1>2 DEF ImportsInv, PathSound
<1>6. \A i \in 1..(len - 1) : i \in 1..len /\ importPath[i] # top
  BY <1>2 DEF ImportsInv, PathSound
<1>7. PathSound'
  <2>1. \A i, j \in 1..(len - 1) : importPath'[i] = importPath'[j] => i = j
    BY <1>3, <1>6 DEF ImportsInv, PathSound
  <2>2. \A i \in 1..(len - 2) : importPath'[i + 1] \in targetsLeft[importPath'[i]]
    <3>1. SUFFICES ASSUME NEW i \in 1..(len - 2) PROVE importPath'[i + 1] \in targetsLeft[importPath'[i]]
      OBVIOUS
    <3>2. i \in 1..(len - 1) /\ i + 1 \in 1..(len - 1)
      BY <1>2
    <3>3. QED
      BY <1>3, <3>2 DEF ImportsInv, PathSound
  <2>3. ASSUME NEW m \in StyleModules
        PROVE  visited'[m] = 1 <=> \E i \in 1..(len - 1) : importPath'[i] = m
    <3>1. CASE m = top
      BY <1>3, <1>4, <1>6, <3>1
    <3>2. CASE m # top
      <4>1. visited'[m] = 1 <=> \E i \in 1..len : importPath[i] = m
        BY <1>4, <3>2 DEF ImportsInv, PathSound
      <4>2. \A i \in 1..len : i \in 1..(len - 1) \/ i = len
        BY <1>2
      <4>3. QED
        BY <1>2, <1>3, <1>6, <3>2, <4>1, <4>2
    <3>3. QED
      BY <3>1, <3>2
  <2>4. Len(importPath') - 1 = len - 2
    BY <1>2, <1>3
  <2>5. QED
    BY <1>1, <1>3, <2>1, <2>2, <2>3, <2>4 DEF PathSound
<1>8. LeftSound'
  <2>1. ASSUME NEW m \in StyleModules
        PROVE  /\ targetsLeft[m] \subseteq Adjacent(m)
               /\ visited'[m] = 2 => targetsLeft[m] = {}
    BY <1>1, <1>4 DEF ImportsInv, LeftSound
  <2>2. ASSUME cyclesFound = {}, NEW m \in StyleModules, visited'[m] # 0,
               NEW n \in Adjacent(m) \ targetsLeft[m]
        PROVE  visited'[n] = 2
    <3>1. visited[m] # 0
      BY <1>4, <1>5, <2>2
    <3>2. visited[n] = 2 /\ n \in StyleModules
      BY <2>2, <3>1, AdjacentAreModules DEF ImportsInv, LeftSound
    <3>3. QED
      BY <1>4, <3>2
  <2>3. QED
    BY <1>1, <2>1, <2>2, SameImports DEF LeftSound
<1>9. DoneIsRanked'
  <2>1. SUFFICES ASSUME cyclesFound = {}
                 PROVE  \E rank \in [Done' -> 1..Cardinality(Done')] :
                           \A m \in Done' : \A n \in Adjacent(m) : n \in Done' /\ rank[n] < rank[m]
    BY <1>1, SameImports DEF DoneIsRanked
  <2>2. PICK rank \in [Done -> 1..Cardinality(Done)] :
           \A m \in Done : \A n \in Adjacent(m) : n \in Done /\ rank[n] < rank[m]
    BY <2>1 DEF ImportsInv, DoneIsRanked
  <2>3. Done' = Done \cup {top} /\ top \notin Done
    BY <1>2, <1>4, <1>5 DEF Done
  <2>4. IsFiniteSet(Done)
    <3>1. Done \subseteq StyleModules
      BY DEF Done
    <3>2. QED
      BY <3>1, FS_Subset
  <2>5. Cardinality(Done) \in Nat /\ Cardinality(Done') = Cardinality(Done) + 1
    BY <2>3, <2>4, FS_CardinalityType, FS_AddElement
  <2> DEFINE card == Cardinality(Done)
             ranked == [m \in Done \cup {top} |-> IF m = top THEN card + 1 ELSE rank[m]]
  <2>6. \A m \in Done : rank[m] \in 1..card
    BY <2>2
  <2>7. ranked \in [Done' -> 1..(card + 1)]
    BY <2>3, <2>5, <2>6
  <2>8. \A n \in Adjacent(top) : n \in Done
    BY <1>1, <1>2, <1>5, <2>1, AdjacentAreModules DEF ImportsInv, LeftSound, Done
  <2>9. ASSUME NEW m \in Done', NEW n \in Adjacent(m)
        PROVE  n \in Done' /\ ranked[n] < ranked[m]
    <3>1. CASE m = top
      <4>1. n \in Done /\ n # top
        BY <2>3, <2>8, <2>9, <3>1
      <4>2. ranked[n] = rank[n] /\ ranked[m] = card + 1
        BY <2>3, <3>1, <4>1
      <4>3. QED
        BY <2>3, <2>5, <2>6, <4>1, <4>2
    <3>2. CASE m # top
      <4>1. m \in Done
        BY <2>3, <3>2
      <4>2. n \in Done /\ rank[n] < rank[m]
        BY <2>2, <2>9, <4>1
      <4>3. QED
        BY <2>3, <3>2, <4>1, <4>2
    <3>3. QED
      BY <3>1, <3>2
  <2> HIDE DEF ranked
  <2>10. QED
    BY <2>5, <2>7, <2>9
<1>10. CyclesAreThere'
  BY <1>1, SameImports DEF ImportsInv, CyclesAreThere
<1>11. QED
  BY <1>1, <1>4, <1>7, <1>8, <1>9, <1>10 DEF ImportsInv

LEMMA ImportsInvStep ==
    ASSUME ImportsInv, IsFiniteSet(StyleModules), [ImportsNext]_importVars
    PROVE  ImportsInv'
<1>1. ASSUME NEW m \in StyleModules, VisitRoot(m)
      PROVE  ImportsInv'
  BY <1>1, VisitModuleStep DEF VisitRoot
<1>2. CASE UNCHANGED importVars
  <2>1. UNCHANGED <<importLines, visited, importPath, targetsLeft, cyclesFound>>
    BY <1>2 DEF importVars
  <2>2. Done' = Done
    BY <2>1 DEF Done
  <2>3. DoneIsRanked'
    BY <2>1, <2>2, RankStays DEF ImportsInv
  <2>4. LeftSound' /\ CyclesAreThere'
    BY <2>1, SameImports DEF ImportsInv, LeftSound, CyclesAreThere
  <2>5. PathSound'
    BY <2>1 DEF ImportsInv, PathSound
  <2>6. QED
    BY <2>1, <2>3, <2>4, <2>5 DEF ImportsInv
<1>3. QED
  BY <1>1, <1>2, LookAtStep, LeaveModuleStep DEF ImportsNext

\* A graph with modules that each lead to one of them cannot be numbered.
LEMMA NoRankOfCycle ==
    ASSUME NEW cycle, cycle # {}, cycle \subseteq StyleModules,
           \A m \in cycle : Adjacent(m) \cap cycle # {}
    PROVE  ~Acyclic_
<1>1. SUFFICES ASSUME NEW rank \in [StyleModules -> 1..Cardinality(StyleModules)],
                      \A m \in StyleModules : \A n \in Adjacent(m) : rank[n] < rank[m]
               PROVE  FALSE
  BY DEF Acyclic_
<1> DEFINE ranks == {rank[m] : m \in cycle}
<1>2. \A m \in StyleModules : rank[m] \in Nat
  BY <1>1
<1>3. ranks \in SUBSET Nat /\ ranks # {}
  BY <1>2
<1>4. PICK x \in ranks : \A y \in ranks : x <= y
  BY <1>3, HasLeast
<1>5. PICK m \in cycle : x = rank[m]
  BY <1>4
<1>6. PICK n \in cycle : n \in Adjacent(m)
  OBVIOUS
<1>7. rank[n] < rank[m] /\ rank[n] \in ranks
  BY <1>1, <1>6
<1> HIDE DEF ranks
<1>8. rank[m] <= rank[n]
  BY <1>4, <1>5, <1>7
<1>9. rank[m] \in Nat /\ rank[n] \in Nat
  BY <1>2
<1>10. QED
  BY <1>7, <1>8, <1>9

LEMMA CyclesAreFound ==
    ASSUME ImportsInv
    PROVE  CyclesFoundIfAny
<1>1. ASSUME \A m \in StyleModules : visited[m] = 2, cyclesFound = {}
      PROVE  Acyclic_
  <2>1. Done = StyleModules
    BY <1>1 DEF Done
  <2>2. QED
    BY <1>1, <2>1 DEF ImportsInv, DoneIsRanked, Acyclic_
<1>2. ASSUME cyclesFound # {}
      PROVE  ~Acyclic_
  <2>1. PICK cycle : cycle \in cyclesFound
    BY <1>2
  <2>2. QED
    BY <2>1, NoRankOfCycle DEF ImportsInv, CyclesAreThere
<1>3. \A cycle \in cyclesFound : \A m \in cycle : Adjacent(m) \cap cycle # {}
  BY DEF ImportsInv, CyclesAreThere
<1>4. QED
  BY <1>1, <1>2, <1>3 DEF CyclesFoundIfAny

-----------------------------------------------------------------------------
(* Types: publishing crates *)

LEMMA CratesTypeStart == CratesInit => CratesTypeOK
<1>1. CratesInit => publishing = <<>> /\ Range(publishing) \subseteq Crates
  BY DEF CratesInit, Range
<1>2. CratesInit => publishDry \in BOOLEAN
  BY Zenon DEF CratesInit
<1>3. CratesInit => /\ publishRuns \in 0..MaxPublishRuns
                    /\ indexed \subseteq uploaded /\ uploaded \subseteq Crates /\ failed \subseteq Crates
                    /\ at_crate \in {"none", "check", "publish", "wait"}
                    /\ publishExit \in {"none", "ok", "failed", "no metadata"}
  BY CratesAssumption DEF CratesInit
<1>4. QED
  BY <1>1, <1>2, <1>3 DEF CratesTypeOK

LEMMA CratesTypeStep ==
    ASSUME CratesTypeOK, CratesInv, [CratesNext]_cratesVars
    PROVE  CratesTypeOK'
<1>1. CratesInv'
  BY CratesInvStep
<1>2. indexed' \subseteq uploaded' /\ uploaded' \subseteq Crates /\ Range(publishing') \subseteq Crates
  BY <1>1 DEF CratesInv, Range
<1>3. at_crate # "none" => Head(publishing) \in Crates
  BY DEF CratesInv
<1>4. ASSUME NEW given \in SUBSET Crates, NextCrate(given)
      PROVE  failed' \subseteq Crates /\ at_crate' \in {"none", "check"}
             /\ publishExit' \in {"none", "ok", "failed", "no metadata"}
  BY <1>4 DEF NextCrate, CratesTypeOK
<1>5. /\ failed' \subseteq Crates /\ at_crate' \in {"none", "check", "publish", "wait"}
      /\ publishExit' \in {"none", "ok", "failed", "no metadata"}
  <2>1. CASE StartPublish
    BY <2>1 DEF StartPublish
  <2>2. CASE CheckVersion
    BY <2>2, <1>4 DEF CheckVersion, Stays, CratesTypeOK
  <2>3. CASE PublishOneDry
    BY <2>3, <1>4 DEF PublishOneDry
  <2>4. CASE PublishOne
    BY <2>4, <1>3, <1>4 DEF PublishOne, Stays, CratesTypeOK
  <2>5. CASE PublishFails
    BY <2>5, <1>3, <1>4 DEF PublishFails
  <2>6. CASE AlreadyUploaded
    BY <2>6 DEF AlreadyUploaded, Stays, CratesTypeOK
  <2>7. CASE WaitIndex
    BY <2>7, <1>3, <1>4 DEF WaitIndex
  <2>8. CASE PublishKilled
    BY <2>8 DEF PublishKilled, CratesTypeOK
  <2>9. ASSUME NEW n \in Crates, IndexShows(n) 
                PROVE  /\ failed' \subseteq Crates /\ at_crate' \in {"none", "check", "publish", "wait"}
                       /\ publishExit' \in {"none", "ok", "failed", "no metadata"}
    BY <2>9 DEF IndexShows, CratesTypeOK
  <2>10. CASE UNCHANGED cratesVars
    BY <2>10 DEF cratesVars, CratesTypeOK
  <2>11. QED
    BY <2>1, <2>2, <2>3, <2>4, <2>5, <2>6, <2>7, <2>8, <2>9, <2>10 DEF CratesNext
<1>6. publishDry' \in BOOLEAN
  BY DEF CratesNext, cratesVars, StartPublish, CheckVersion, PublishOneDry, PublishOne,
     PublishFails, AlreadyUploaded, WaitIndex, PublishKilled, IndexShows, CratesTypeOK
<1>7. publishRuns' \in 0..MaxPublishRuns
  <2>1. publishRuns \in 0..MaxPublishRuns
    BY DEF CratesTypeOK
  <2>2. CASE StartPublish
    <3>1. publishRuns < MaxPublishRuns /\ publishRuns' = publishRuns + 1
      BY <2>2 DEF StartPublish
    <3>2. MaxPublishRuns \in Nat
      BY CratesAssumption
    <3>3. QED
      BY <2>1, <3>1, <3>2
  <2>3. CASE UNCHANGED publishRuns
    BY <2>1, <2>3
  <2>4. StartPublish \/ UNCHANGED publishRuns
    BY DEF CratesNext, cratesVars, CheckVersion, PublishOneDry, PublishOne,
       PublishFails, AlreadyUploaded, WaitIndex, PublishKilled, IndexShows
  <2>5. QED
    BY <2>2, <2>3, <2>4
<1>8. QED
  BY <1>2, <1>5, <1>6, <1>7 DEF CratesTypeOK

-----------------------------------------------------------------------------
(* Types: the family-version gate *)

LEMMA OnLineIs == OnLine \in Written
BY RequirementsAssumption, FamilyVersionsAssumption DEF OnLine, Written, Operators, Parts

LEMMA RegistryIs == Registry \in Cargo
<1>1. \A b \in BOOLEAN :
         [track |-> "cargo", family |-> "kirino", published |-> b, path |-> "none",
          git |-> "none", ref |-> "none", requirement |-> "range"] \in Cargo
  BY DEF Cargo
<1>2. QED
  BY <1>1, Zenon DEF Registry

\* Every declaration has a level.
LEMMA LevelsAre ==
    /\ \A d \in Cargo : CargoLevel(d) \in {"ok", "warning", "violation"} /\ d.track = "cargo"
    /\ \A d \in Npm : NpmLevel(d) \in {"ok", "warning", "violation"} /\ d.track = "npm"
<1>1. ASSUME NEW d \in Cargo PROVE CargoLevel(d) \in {"ok", "warning", "violation"} /\ d.track = "cargo"
  <2>1. /\ d.path \in {"none", "inside", "outside"} /\ d.git \in {"none", "family", "foreign"}
        /\ d.track = "cargo"
    BY DEF Cargo
  <2>2. CASE d.path = "inside"
    BY <2>1, <2>2 DEF CargoLevel
  <2>3. CASE d.path = "outside"
    BY <2>1, <2>3 DEF CargoLevel
  <2>4. CASE d.path = "none" /\ d.git = "foreign"
    BY <2>1, <2>4 DEF CargoLevel
  <2>5. CASE d.path = "none" /\ d.git = "family" /\ d.ref = "rev"
    BY <2>1, <2>5 DEF CargoLevel
  <2>6. CASE d.path = "none" /\ d.git = "family" /\ d.ref # "rev"
    BY <2>1, <2>6 DEF CargoLevel
  <2>7. CASE d.path = "none" /\ d.git = "none"
    BY <2>1, <2>7 DEF CargoLevel
  <2>8. QED
    BY <2>1, <2>2, <2>3, <2>4, <2>5, <2>6, <2>7
<1>2. ASSUME NEW d \in Npm PROVE NpmLevel(d) \in {"ok", "warning", "violation"} /\ d.track = "npm"
  BY DEF Npm, NpmLevel
<1>3. QED
  BY <1>1, <1>2

LEMMA FamilyTypeStart == FamilyVersionsInit => FamilyVersionsTypeOK
<1>1. FamilyVersionsInit => declared \in Cargo \cup Npm /\ (\A branch \in range : branch \subseteq Written)
  BY RegistryIs, OnLineIs DEF FamilyVersionsInit
<1>2. FamilyVersionsInit => locked = {} /\ day = 0 /\ weldUntil = 0 /\ report.level = "none" /\ report.exit = "none"
  BY DEF FamilyVersionsInit, NoReport
<1>3. QED
  BY <1>1, <1>2, FamilyVersionsAssumption DEF FamilyVersionsTypeOK

LEMMA FamilyTypeStep ==
    ASSUME FamilyVersionsTypeOK, [FamilyVersionsNext]_familyVars
    PROVE  FamilyVersionsTypeOK'
<1>0. NoReport.level = "none" /\ NoReport.exit = "none"
  BY DEF NoReport
<1>1. ASSUME NEW c \in Written, Narrow(c) \/ Alternate(c) PROVE FamilyVersionsTypeOK'
  <2>1. range' = {(UNION range) \cup {c}} \/ range' = range \cup {{c}}
    BY <1>1 DEF Narrow, Alternate
  <2>2. \A branch \in range' : branch \subseteq Written
    BY <2>1 DEF FamilyVersionsTypeOK
  <2>3. UNCHANGED <<declared, locked, day, weldUntil>> /\ report' = NoReport
    BY <1>1 DEF Narrow, Alternate
  <2>4. QED
    BY <1>0, <2>2, <2>3, Zenon DEF FamilyVersionsTypeOK
<1>2. CASE Declare
  <2>1. declared' \in Cargo \cup Npm /\ UNCHANGED <<locked, day, report>>
    BY <1>2, Zenon DEF Declare, Sensible
  <2>2. \A branch \in range' : branch \subseteq Written
    BY <1>2 DEF Declare
  <2>3. weldUntil' \in {0, 1, MaxDay + 1}
    BY <1>2 DEF Declare
  <2>4. weldUntil' \in 0..(MaxDay + 1)
    BY <2>3, FamilyVersionsAssumption
  <2>5. QED
    BY <2>1, <2>2, <2>4, Zenon DEF FamilyVersionsTypeOK
<1>3. CASE Relock
  <2>1. /\ locked' \subseteq {"this", "older"} \X {"root", "nested"}
        /\ UNCHANGED <<declared, range, day, weldUntil>> /\ report' = NoReport
    BY <1>3, Zenon DEF Relock
  <2>2. QED
    BY <1>0, <2>1, Zenon DEF FamilyVersionsTypeOK
<1>4. CASE DayPasses
  <2>1. day < MaxDay /\ day' = day + 1 /\ day \in 0..MaxDay
    BY <1>4, Zenon DEF DayPasses, FamilyVersionsTypeOK
  <2>2. day' \in 0..MaxDay
    BY <2>1, FamilyVersionsAssumption
  <2>3. UNCHANGED <<declared, range, locked, weldUntil>> /\ report' = NoReport
    BY <1>4, Zenon DEF DayPasses
  <2>4. QED
    BY <1>0, <2>2, <2>3, Zenon DEF FamilyVersionsTypeOK
<1>5. CASE Check
  <2>1. declared \in Cargo \cup Npm
    BY DEF FamilyVersionsTypeOK
  <2> DEFINE found == IF declared.track = "cargo" THEN CargoLevel(declared) ELSE NpmLevel(declared)
  <2>2. found \in {"ok", "warning", "violation"}
    BY <2>1, LevelsAre
  <2>3. /\ report'.level = "ok" \/ report'.level = found
        /\ report'.exit = "1" \/ report'.exit = "0"
        /\ UNCHANGED <<declared, range, locked, day, weldUntil>>
    <3>1. PICK strict \in BOOLEAN :
             report' = [level |-> IF Weldable(declared) /\ WeldActive THEN "ok" ELSE found,
                        welded |-> Weldable(declared) /\ WeldActive, locks |-> LockWarning,
                        exit |-> IF \/ (IF Weldable(declared) /\ WeldActive THEN "ok" ELSE found) = "violation"
                                    \/ strict /\ ((IF Weldable(declared) /\ WeldActive THEN "ok" ELSE found) = "warning"
                                                  \/ LockWarning)
                                 THEN "1" ELSE "0"]
      BY <1>5 DEF Check
    <3> HIDE DEF found
    <3>2. UNCHANGED <<declared, range, locked, day, weldUntil>>
      BY <1>5 DEF Check
    <3>3. QED
      BY <3>1, <3>2, Zenon
  <2> HIDE DEF found
  <2>4. report'.level \in {"none", "ok", "warning", "violation"} /\ report'.exit \in {"none", "0", "1"}
    BY <2>2, <2>3
  <2>5. QED
    BY <2>3, <2>4, Zenon DEF FamilyVersionsTypeOK
<1>6. CASE UNCHANGED familyVars
  BY <1>6, Zenon DEF familyVars, FamilyVersionsTypeOK
<1>7. QED
  BY <1>1, <1>2, <1>3, <1>4, <1>5, <1>6, Zenon DEF FamilyVersionsNext

-----------------------------------------------------------------------------
(* Types: verify-versions *)

LEMMA VersionsTypeStart == VersionsInit => VersionsTypeOK
<1>1. 1 \in Lines /\ 0 \in 0..MaxSlotEdits /\ Unversioned \in Declared
  BY VerifyVersionsAssumption DEF Lines, Declared
<1>2. /\ [workspace |-> 1, package |-> Unversioned] \in CargoRoot
      /\ [version |-> 1, private |-> FALSE] \in NpmFile
  BY <1>1 DEF CargoRoot, NpmFile, Declared
<1>3. \A b \in BOOLEAN : [version |-> Unversioned, private |-> b] \in NpmFile
  BY <1>1 DEF NpmFile
<1>4. VersionsInit => /\ cargoRoot \in CargoRoot \cup {Absent, Corrupt}
                      /\ npmRoot \in NpmFile \cup {Absent, Corrupt}
  BY <1>2, <1>3 DEF VersionsInit
<1>5. QED
  BY <1>1, <1>4 DEF VersionsInit, VersionsTypeOK, NotVerified

LEMMA VersionsTypeStep ==
    ASSUME VersionsTypeOK, [VersionsNext]_versionVars
    PROVE  VersionsTypeOK'
<1>1. CASE EditSlot
  <2>1. PlainConfig \in Config
    BY DEF PlainConfig, Config, Declared
  <2>2. TheConfig \in Config
    BY <2>1 DEF VersionsTypeOK, TheConfig, IsFile
  <2>3. ASSUME NEW track \in {"cargo", "npm", "python"}, NEW v \in Declared
        PROVE  [TheConfig EXCEPT ![track] = v] \in Config
    BY <2>2 DEF Config
  <2>4. ASSUME NEW cross \in {"none", "lockstep", "typo"}, NEW out \in {{}, {"vendored"}}
        PROVE  [TheConfig EXCEPT !.cross = cross, !.exempt = out] \in Config
    BY <2>2 DEF Config
  <2>5. versionsToml' \in Config \cup {Absent, Corrupt}
    BY <1>1, <2>3, <2>4 DEF EditSlot, VersionsTypeOK
  <2>6. gate'.exit \in 0..2 /\ slotEdits' \in 0..MaxSlotEdits
    BY <1>1, VerifyVersionsAssumption DEF EditSlot, VersionsTypeOK, NotVerified
  <2>7. cargoRoot' \in CargoRoot \cup {Absent, Corrupt} /\ npmRoot' \in NpmFile \cup {Absent, Corrupt}
    BY <1>1 DEF EditSlot, VersionsTypeOK
  <2>8. QED
    BY <2>5, <2>6, <2>7 DEF VersionsTypeOK
<1>2. ASSUME NEW npmBase \in Declared, VerifyFamily(npmBase) PROVE VersionsTypeOK'
  BY <1>2, RequirementsAssumption, FamilyVersionsAssumption, VerifyVersionsAssumption DEF
     VerifyFamily, VersionsTypeOK, NpmBases, Errors, CargoDrifts, NpmDrifts, PythonDrifts,
     CrossDrifts, slotVars, CargoRoot, NpmFile, Config, Pinned_, TheConfig, NpmRootDefines, Winners,
     CargoBase, CargoPresent, NpmPresent, PythonPresent, PythonBase, Members, Gated, ByMajority,
     Drifted, IsFile, Lines, Declared, PlainConfig, PublishedAt, CargoInferred, PythonInferred
<1>3. CASE UNCHANGED versionVars
  BY <1>3, RequirementsAssumption, FamilyVersionsAssumption, VerifyVersionsAssumption DEF
     versionVars, VersionsTypeOK, CargoRoot, NpmFile, Config, Declared, Lines
<1>4. QED
  BY <1>1, <1>2, <1>3 DEF VersionsNext

-----------------------------------------------------------------------------
(* Types: the type-escape gate *)

LEMMA TotalIsNatural == \A counts : Total(counts) \in Nat
<1> SUFFICES ASSUME NEW counts PROVE Total(counts) \in Nat
  OBVIOUS
<1> DEFINE all   == TsFiles \X (1..MaxCasts)
           casts == {p \in all : p[1] \in DOMAIN counts /\ p[2] <= counts[p[1]]}
<1>1. IsFiniteSet(TsFiles) /\ IsFiniteSet(1..MaxCasts)
  BY TypeEscapesAssumption, FS_Interval
<1>2. IsFiniteSet(all)
  BY <1>1, FS_Product
<1>3. casts \subseteq all
  OBVIOUS
<1> HIDE DEF all, casts
<1>4. IsFiniteSet(casts)
  BY <1>2, <1>3, FS_Subset
<1>5. Cardinality(casts) \in Nat
  BY <1>4, FS_CardinalityType
<1>6. QED
  BY <1>5 DEF Total, casts, all

LEMMA TsContentsEdited ==
    ASSUME NEW c \in TsContents
    PROVE  /\ \A n \in 0..MaxCasts : [c EXCEPT !.casts = n] \in TsContents
           /\ \A l \in TsLines \cup {CleanLine} : [c EXCEPT !.line = l] \in TsContents
           /\ \A m \in {"reason", "ledger"}, g \in BOOLEAN :
                 [c EXCEPT !.marker = m, !.generated = g] \in TsContents
BY DEF TsContents

LEMMA TsEmptyIs == TsEmpty \in TsContents
<1>1. \A b \in BOOLEAN, l \in TsLines \cup {CleanLine} :
         [generated |-> b, marker |-> "none", casts |-> 0, line |-> l] \in TsContents
  BY TypeEscapesAssumption DEF TsContents
<1>2. QED
  BY <1>1, Zenon DEF TsEmpty

LEMMA EscapesTypeStart == TypeEscapesInit => TypeEscapesTypeOK
<1> SUFFICES ASSUME TypeEscapesInit PROVE TypeEscapesTypeOK
  OBVIOUS
<1>1. tree \in [TsFiles -> TsContents \cup {NoTsFile}]
  BY TsEmptyIs, TsContentsEdited DEF TypeEscapesInit
<1>2. gateRun.exit \in 0..2 /\ gateRun.unread \subseteq TsFiles
  BY DEF TypeEscapesInit, NotRun
<1>3. QED
  BY <1>1, <1>2, TypeEscapesAssumption DEF TypeEscapesInit, TypeEscapesTypeOK

LEMMA EscapesTypeStep ==
    ASSUME TypeEscapesTypeOK, [TypeEscapesNext]_escapeVars
    PROVE  TypeEscapesTypeOK'
<1>1. ASSUME NEW f \in TsFiles, EditTs(f) PROVE TypeEscapesTypeOK'
  <2> DEFINE c == IF tree[f] = NoTsFile THEN TsEmpty ELSE tree[f]
  <2>1. c \in TsContents
    BY TsEmptyIs DEF TypeEscapesTypeOK
  <2> HIDE DEF c
  <2>2. \E t \in TsContents \cup {NoTsFile} : tree' = [tree EXCEPT ![f] = t]
    <3>1. \/ \E n \in 0..MaxCasts : tree' = [tree EXCEPT ![f] = [c EXCEPT !.casts = n]]
          \/ \E l \in TsLines \cup {CleanLine} : tree' = [tree EXCEPT ![f] = [c EXCEPT !.line = l]]
          \/ \E m \in {"reason", "ledger"}, g \in BOOLEAN :
                tree' = [tree EXCEPT ![f] = [c EXCEPT !.marker = m, !.generated = g]]
          \/ tree' = [tree EXCEPT ![f] = NoTsFile]
      BY <1>1 DEF EditTs, c
    <3>2. QED
      BY <2>1, <3>1, TsContentsEdited
  <2>3. tree' \in [TsFiles -> TsContents \cup {NoTsFile}]
    BY <2>2 DEF TypeEscapesTypeOK
  <2>4. tsEdits < MaxTsEdits /\ tsEdits' = tsEdits + 1 /\ UNCHANGED <<ledgerFile, gateRun, tsRuns>>
    BY <1>1 DEF EditTs
  <2>5. tsEdits' \in 0..MaxTsEdits
    BY <2>4, TypeEscapesAssumption DEF TypeEscapesTypeOK
  <2>6. QED
    BY <2>3, <2>4, <2>5 DEF TypeEscapesTypeOK, IsLedger
<1>2. CASE LedgerLost
  BY <1>2, TypeEscapesAssumption, P0GateAssumption, DomainLeakAssumption DEF LedgerLost,
     TypeEscapesTypeOK, TsContents, IsLedger, TsLines, CleanLine, TsRules
<1>3. ASSUME NEW ask \in Asked, NEW unread \in SUBSET TsFiles,
             GateTs(ask, unread)
      PROVE  TypeEscapesTypeOK'
  <2>1. IsLedger(BuildBaseline(unread))
    <3>1. \A g \in DOMAIN CountByFile(unread) : g \in TsFiles /\ CountByFile(unread)[g] \in 1..MaxCasts
      BY TypeEscapesAssumption DEF CountByFile, ScannedFiles, TypeEscapesTypeOK, TsContents
    <3>2. QED
      BY <3>1, TotalIsNatural DEF BuildBaseline, IsLedger
  <2>2. /\ ledgerFile' = ledgerFile \/ ledgerFile' = BuildBaseline(unread)
        /\ \E i \in 0..2 : gateRun' = [exit |-> i, unread |-> unread]
        /\ tsRuns < MaxTsRuns /\ tsRuns' = tsRuns + 1 /\ UNCHANGED <<tree, tsEdits>>
    BY <1>3 DEF GateTs
  <2>3. ledgerFile' # NoLedger => IsLedger(ledgerFile')
    BY <2>1, <2>2 DEF TypeEscapesTypeOK
  <2>4. gateRun'.exit \in 0..2 /\ gateRun'.unread \subseteq TsFiles
    BY <2>2
  <2>5. tsRuns' \in 0..MaxTsRuns
    BY <2>2, TypeEscapesAssumption DEF TypeEscapesTypeOK
  <2>6. QED
    BY <2>2, <2>3, <2>4, <2>5 DEF TypeEscapesTypeOK
<1>4. CASE UNCHANGED escapeVars
  BY <1>4, TypeEscapesAssumption, P0GateAssumption, DomainLeakAssumption DEF escapeVars,
     TypeEscapesTypeOK, TsContents, IsLedger, TsLines, CleanLine, TsRules
<1>5. QED
  BY <1>1, <1>2, <1>3, <1>4 DEF TypeEscapesNext

-----------------------------------------------------------------------------
(* Types: p0-gate *)

LEMMA P0TypeStart == P0Init => P0TypeOK
<1>1. ASSUME NEW scope \in (SUBSET P0Repos) \ {{}}
      PROVE  [id \in P0Findings |-> [status |-> "open", scope |-> scope]] \in Ledgers
  <2>1. [status |-> "open", scope |-> scope] \in P0Entries
    BY DEF P0Entries
  <2>2. P0Findings \in (SUBSET P0Findings) \ {{}}
    BY P0GateAssumption
  <2>3. QED
    BY <2>1, <2>2 DEF Ledgers
<1>2. P0Init => ledgers \in [LedgerPlaces -> Ledgers \cup {BadLedger, NoP0Ledger}]
  BY <1>1 DEF P0Init
<1>3. P0Init => p0Verdict.exit \in 0..3 /\ ledgerEdits \in 0..MaxLedgerEdits
  BY P0GateAssumption DEF P0Init, NotGated
<1>4. P0Init => pinnedByEnv \in BOOLEAN
  BY DEF P0Init
<1>5. QED
  BY <1>2, <1>3, <1>4 DEF P0TypeOK

LEMMA P0TypeStep ==
    ASSUME P0TypeOK, [P0Next]_p0Vars
    PROVE  P0TypeOK'
<1>1. ASSUME NEW repos \in SUBSET P0Repos, NEW named \in SUBSET P0Findings, NEW words \in AckWords,
             NEW readable \in BOOLEAN,
             RunP0Gate(repos, named, words, readable)
      PROVE  P0TypeOK'
  BY <1>1, TypeEscapesAssumption, P0GateAssumption, DomainLeakAssumption DEF RunP0Gate, P0TypeOK,
     NotGated, Usable_, InForce, OpenFor, CollectAcks, LedgerPlaces, Ledgers, ResolveLedgerPath,
     ParseAckMarkers, P0Entries
<1>2. CASE EditLedger
  <2>1. ledgers' \in [LedgerPlaces -> Ledgers \cup {BadLedger, NoP0Ledger}]
    BY <1>2 DEF EditLedger, P0TypeOK
  <2>2. pinnedByEnv' \in BOOLEAN
    BY <1>2 DEF EditLedger, P0TypeOK
  <2>3. QED
    BY <1>2, <2>1, <2>2, P0GateAssumption DEF P0TypeOK, EditLedger, NotGated
<1>3. CASE UNCHANGED p0Vars
  BY <1>3, TypeEscapesAssumption, P0GateAssumption, DomainLeakAssumption DEF p0Vars, P0TypeOK,
     LedgerPlaces, Ledgers, P0Entries
<1>4. QED
  BY <1>1, <1>2, <1>3 DEF P0Next

-----------------------------------------------------------------------------
(* Types: domain-leak *)

\* A hook leaves the workspace alone, and what it is told of is in the repository.
LEMMA LeakHookType ==
    ASSUME LeakTypeOK, NEW clone \in Clones, NEW lines,
           NEW unshown \in SUBSET LeakFiles, NEW retyped \in SUBSET LeakFiles,
           RunPushed(clone, lines, unshown, retyped)
    PROVE  LeakTypeOK'
<1> DEFINE brought == {clone.is} \X UNION {Brings(line) : line \in lines}
<1>1. clone.is # OtherRepo => clone.is \in LeakRepos
  BY DEF Clones
<1>2. UNION {Brings(line) : line \in lines} \subseteq LeakFiles
  BY DEF Brings
<1>3. clone.is # OtherRepo => brought \ LoadBaseline \subseteq Entries_
  BY <1>1, <1>2 DEF Entries_
<1> HIDE DEF brought
<1>4. \/ leakVerdict' \in {[exit |-> i, missed |-> {}] : i \in {0, 2}}
      \/ clone.is # OtherRepo /\ leakVerdict' \in {[exit |-> i, missed |-> brought \ LoadBaseline] : i \in {0, 1}}
  BY DEF RunPushed, brought
<1>5. leakVerdict'.exit \in 0..3 /\ leakVerdict'.missed \subseteq Entries_
  BY <1>3, <1>4
<1>6. overlooked' \subseteq Entries_
  BY DomainLeakAssumption DEF RunPushed, Overlooked, Entries_
<1>7. QED
  BY <1>5, <1>6 DEF RunPushed, LeakTypeOK

LEMMA LeakTypeStart == LeakInit => LeakTypeOK
  BY TypeEscapesAssumption, P0GateAssumption, DomainLeakAssumption DEF LeakInit, LeakTypeOK,
     LeakTreesAtFirst, Entries_, NoLeakScan, Unjudged, LeakTrees, LeakScans, LeakTexts

LEMMA LeakTypeStep ==
    ASSUME LeakTypeOK, [LeakNext]_leakVars
    PROVE  LeakTypeOK'
<1>1. ASSUME NEW flag \in BOOLEAN, NEW env \in BOOLEAN, NEW marker \in BOOLEAN,
             NEW prune \in BOOLEAN,
             StartLeakScan(ResolveWorkspaceSource(flag, env, marker), prune)
      PROVE  LeakTypeOK'
  BY <1>1, TypeEscapesAssumption, P0GateAssumption, DomainLeakAssumption DEF StartLeakScan,
     ResolveWorkspaceSource, LeakTypeOK, NoLeakScan, Unjudged, LeakScanFrom, LeakTrees, Entries_,
     LeakScans, LoadBaseline, LeakTexts
<1>2. ASSUME NEW repo \in LeakRepos, NEW unread \in SUBSET LeakFiles,
             ScanLeakRepo(repo, unread)
      PROVE  LeakTypeOK'
  <2> DEFINE here == leakTrees[repo] # NoCheckout
             read == {f \in LeakFiles : here /\ Walked(f) /\ f \notin unread}
             found == {repo} \X {f \in read : FindTerms(f, leakTrees[repo][f])}
             unseen == IF here THEN {repo} \X (LeakFiles \ read) ELSE {}
  <2>1. found \subseteq Entries_ /\ unseen \subseteq Entries_
    BY DEF Entries_
  <2>2. leakScan' = [leakScan EXCEPT !.left = @ \ {repo}, !.hits = @ \cup found,
                                     !.excused = @ \cup unseen]
    BY <1>2 DEF ScanLeakRepo
  <2> HIDE DEF found, unseen
  <2>3. leakScan \in LeakScans
    BY <1>2 DEF ScanLeakRepo, LeakTypeOK
  <2>4. leakScan' \in LeakScans
    BY <2>1, <2>2, <2>3 DEF LeakScans
  <2>5. UNCHANGED <<leakTrees, leakBaseline, leakVerdict, struckOff, overlooked, leakEdits>>
    BY <1>2 DEF ScanLeakRepo
  <2>6. QED
    BY <2>4, <2>5 DEF LeakTypeOK
<1>3. CASE EndLeakScan
  BY <1>3, TypeEscapesAssumption, P0GateAssumption, DomainLeakAssumption DEF EndLeakScan,
     LeakTypeOK, NoLeakScan, NewLeaks, LeaksNow, LeakTrees, Entries_, LeakScans, FindTerms,
     LeakTexts
<1>4. CASE CheckReach
  BY <1>4, TypeEscapesAssumption, P0GateAssumption, DomainLeakAssumption DEF CheckReach, LeakTypeOK,
     NoLeakScan, LeakTrees, Entries_, LeakScans, LeakTexts
<1>5. CASE PruneBaseline
  BY <1>5, TypeEscapesAssumption, P0GateAssumption, DomainLeakAssumption DEF PruneBaseline,
     LeakTypeOK, NoLeakScan, StaleLeaks, LoadBaseline, LeaksNow, NotHere, LeakScanFrom, LeakTrees,
     Entries_, LeakScans, FindTerms, LeakTexts
<1>6. ASSUME NEW clone \in Clones, NEW line \in RefLines,
             NEW unshown \in SUBSET LeakFiles, NEW retyped \in SUBSET LeakFiles,
             RunPushed(clone, {line, [kind |-> "delete"]}, unshown, retyped)
      PROVE  LeakTypeOK'
  BY <1>6, LeakHookType
<1>7. ASSUME NEW clone \in Clones, NEW was \in LeakTrees, NEW is \in LeakTrees,
             NEW unshown \in SUBSET LeakFiles, NEW retyped \in SUBSET LeakFiles,
             RunStaged(clone, was, is, unshown, retyped)
      PROVE  LeakTypeOK'
  BY <1>7, LeakHookType DEF RunStaged
<1>8. ASSUME NEW repo \in LeakRepos, WorkInRepo(repo) PROVE LeakTypeOK'
  BY <1>8, TypeEscapesAssumption, P0GateAssumption, DomainLeakAssumption DEF WorkInRepo, LeakTypeOK,
     CheckoutsFrom, NoLeakScan, LeakTrees, Entries_, LeakScans, LeakTexts
<1>9. CASE BaselineChanges
  BY <1>9, TypeEscapesAssumption, P0GateAssumption, DomainLeakAssumption DEF BaselineChanges,
     LeakTypeOK, Entries_, LoadBaseline, LeakTrees, NoLeakScan, LeakScans, LeakTexts
<1>10. CASE UNCHANGED leakVars
  BY <1>10, TypeEscapesAssumption, P0GateAssumption, DomainLeakAssumption DEF leakVars, LeakTypeOK,
     LeakTrees, Entries_, NoLeakScan, LeakScans, LeakTexts
<1>11. QED
  BY <1>1, <1>2, <1>3, <1>4, <1>5, <1>6, <1>7, <1>8, <1>9, <1>10 DEF LeakNext

-----------------------------------------------------------------------------
(* Types: the credential sweep *)

LEMMA SweepTypeStart == SweepInit => SweepTypeOK
  BY GateSweepAssumption DEF SweepInit, SweepTypeOK, DotGit, EmptySweep, CheckoutState, FileKinds

LEMMA SweepTypeStep ==
    ASSUME SweepTypeOK, SweepInv, [SweepNext]_sweepVars
    PROVE  SweepTypeOK'
<1>1. CASE StartSweep
  <2>1. gateReport'.exit = 2 /\ gateReport'.found = {} /\ gateReport'.scanned = {}
    <3>1. EmptySweep.exit = 2 /\ EmptySweep.found = {} /\ EmptySweep.scanned = {}
      BY DEF EmptySweep
    <3>2. CASE gateReport' = EmptySweep
      BY <3>1, <3>2
    <3>3. ASSUME NEW strict, NEW meant, NEW skipped, NEW ahead,
                 gateReport' = [EmptySweep EXCEPT !.on = TRUE, !.strict = strict, !.meant = meant,
                                                  !.skipped = skipped, !.todo = ahead]
          PROVE  gateReport'.exit = 2 /\ gateReport'.found = {} /\ gateReport'.scanned = {}
      BY <3>3 DEF EmptySweep
    <3>4. PICK all \in BOOLEAN, one \in SweepRepos, configs \in BOOLEAN, literals \in BOOLEAN,
               strict \in BOOLEAN :
             LET chosen == IF all THEN {r \in SweepRepos : IsLangyoRepo(r)} ELSE {one}
             IN  IF chosen = {} \/ (~configs /\ ~literals) THEN gateReport' = EmptySweep
                 ELSE gateReport' = [EmptySweep EXCEPT
                      !.on = TRUE, !.strict = strict,
                      !.meant = (IF all THEN {r \in SweepRepos : Langyo(r)} ELSE {one})
                                \X (IF literals THEN SweepPaths ELSE {}),
                      !.skipped = (IF all THEN DiscoverSkips ELSE {})
                                  \cup (IF configs THEN UNION {GitSkips(r) : r \in chosen} ELSE {}),
                      !.todo = (IF configs THEN UNION {GitConfigPaths(r) : r \in chosen} ELSE {})
                               \cup (IF literals THEN chosen \X SweepPaths ELSE {})]
      BY <1>1 DEF StartSweep
    <3> DEFINE chosen == IF all THEN {r \in SweepRepos : IsLangyoRepo(r)} ELSE {one}
               tree_ == (IF all THEN {r \in SweepRepos : Langyo(r)} ELSE {one})
                        \X (IF literals THEN SweepPaths ELSE {})
               skips == (IF all THEN DiscoverSkips ELSE {})
                        \cup (IF configs THEN UNION {GitSkips(r) : r \in chosen} ELSE {})
               left == (IF configs THEN UNION {GitConfigPaths(r) : r \in chosen} ELSE {})
                       \cup (IF literals THEN chosen \X SweepPaths ELSE {})
    <3>5. gateReport' = EmptySweep
          \/ gateReport' = [EmptySweep EXCEPT !.on = TRUE, !.strict = strict, !.meant = tree_,
                                              !.skipped = skips, !.todo = left]
      BY <3>4
    <3> HIDE DEF chosen, tree_, skips, left
    <3>6. CASE gateReport' # EmptySweep
      <4>1. gateReport' = [EmptySweep EXCEPT !.on = TRUE, !.strict = strict, !.meant = tree_,
                                             !.skipped = skips, !.todo = left]
        BY <3>5, <3>6
      <4>2. QED
        BY <3>3, <4>1
    <3>7. QED
      BY <3>2, <3>6
  <2>2. QED
    BY <1>1, <2>1, GateSweepAssumption DEF StartSweep, SweepTypeOK
<1>2. CASE EndSweep
  BY <1>2, GateSweepAssumption DEF EndSweep, SweepTypeOK, CheckoutState, FileKinds, DotGit
<1>3. CASE EditTree
  <2>1. ASSUME NEW r \in SweepRepos, NEW p \in SweepPaths, NEW k \in FileKinds,
               trees' = [trees EXCEPT ![r][p] = k]
        PROVE  trees' \in [SweepRepos -> [SweepPaths -> FileKinds]]
    BY <2>1 DEF SweepTypeOK
  <2>2. trees' \in [SweepRepos -> [SweepPaths -> FileKinds]]
    BY <1>3, <2>1 DEF EditTree, SweepTypeOK
  <2>3. checkouts' \in [SweepRepos -> CheckoutState]
    BY <1>3 DEF EditTree, SweepTypeOK, CheckoutState
  <2>4. QED
    BY <1>3, <2>2, <2>3, GateSweepAssumption DEF EditTree, SweepTypeOK
<1>4. ASSUME NEW path \in gateReport.todo, SweepPath(path) PROVE SweepTypeOK'
  <2>1. /\ gateReport'.exit = gateReport.exit /\ gateReport'.found \ gateReport.found \subseteq {path}
        /\ gateReport.scanned \subseteq gateReport'.scanned
        /\ gateReport'.found # gateReport.found => path \in gateReport'.scanned
    <3>1. DOMAIN gateReport = {"on", "todo", "found", "scanned", "skipped", "meant", "strict", "exit"}
      BY DEF SweepInv, EmptySweep
    <3>2. QED
      BY <1>4, <3>1 DEF SweepPath
  <2>2. QED
    BY <1>4, <2>1 DEF SweepTypeOK, SweepPath
<1>5. CASE UNCHANGED sweepVars
  BY <1>5, GateSweepAssumption DEF sweepVars, SweepTypeOK, CheckoutState, FileKinds, DotGit
<1>6. QED
  BY <1>1, <1>2, <1>3, <1>4, <1>5 DEF SweepNext

-----------------------------------------------------------------------------
(* Types: release notes *)

\* Every version has its place on the forge, taken or not.
ReleasesKnown == DOMAIN releases = Releases

LEMMA NotesTypeStart == NotesInit => NotesTypeOK /\ ReleasesKnown
<1> SUFFICES ASSUME NotesInit PROVE NotesTypeOK /\ ReleasesKnown
  OBVIOUS
<1>1. tip \in Commits /\ direct \subseteq Commits /\ tagged \in [Releases -> {0} \cup Commits]
  BY ReleaseNotesAssumption DEF NotesInit, Commits
<1>2. Drafted \in Release_
  BY DEF Drafted, Release_
<1>3. /\ DOMAIN releases = Releases
      /\ \A v \in Releases : releases[v] = NoRelease \/ releases[v] \in Release_
  BY <1>2 DEF NotesInit
<1>4. notes.on = "idle" /\ notes.listed = {}
  BY DEF NotesInit, NoNotes
<1>5. QED
  BY <1>1, <1>3, <1>4 DEF NotesTypeOK, ReleasesKnown

LEMMA NotesTypeStep ==
    ASSUME NotesTypeOK, ReleasesKnown, NotesInv, [NotesNext]_notesVars
    PROVE  NotesTypeOK' /\ ReleasesKnown'
<1>1. ASSUME NEW v \in Releases, NEW apply \in BOOLEAN, NEW publish \in BOOLEAN,
             NEW previous \in {0, ResolvePreviousTag(v)} \cup (Releases \ {v}),
             StartNotes(v, previous, apply, publish)
      PROVE  NotesTypeOK' /\ ReleasesKnown'
  BY <1>1, ReleaseNotesAssumption DEF StartNotes, NotesTypeOK, NoNotes, Commits, Releases, Release_,
     ReleasesKnown
<1>2. CASE WalkPage
  BY <1>2, ReleaseNotesAssumption DEF WalkPage, NotesTypeOK, PageOf, AboveBase, BaseFound, EndsWalk,
     Commits, Releases, Release_, ReleasesKnown
<1>3. CASE UpsertRelease
  <2>1. /\ [draft |-> ~notes.publish, target |-> tagged[notes.tag] = 0, body |-> notes.listed] \in Release_
        /\ \A r \in Release_ : [r EXCEPT !.body = notes.listed] \in Release_
    BY DEF ReleasesKnown, NotesTypeOK, Release_
  <2>2. /\ DOMAIN releases' = Releases
        /\ \A v \in Releases : releases'[v] = NoRelease \/ releases'[v] \in Release_
    BY <1>3, <2>1 DEF ReleasesKnown, NotesTypeOK, UpsertRelease
  <2>3. notes'.on \in {"done", "error"} /\ notes'.listed = notes.listed
    BY <1>3 DEF UpsertRelease, NotesInv, NotesTypes, NoteRuns
  <2>4. QED
    BY <1>3, <2>2, <2>3 DEF ReleasesKnown, NotesTypeOK, UpsertRelease
<1>4. CASE NotesFail
  BY <1>4, ReleaseNotesAssumption DEF NotesFail, NotesTypeOK, Commits, Releases, Release_,
     ReleasesKnown
<1>5. CASE EditHistory
  <2>1. CASE UNCHANGED <<tip, direct>>
    <3>1. tagged' \in [Releases -> {0} \cup Commits]
      BY <1>5 DEF ReleasesKnown, NotesTypeOK, EditHistory
    <3>2. \A b \in BOOLEAN : [draft |-> b, target |-> TRUE, body |-> {}] \in Release_
      BY DEF Release_
    <3>3. \A r \in Release_ : [r EXCEPT !.draft = FALSE] \in Release_
      BY DEF Release_
    <3>4. /\ DOMAIN releases' = Releases
          /\ \A v \in Releases : releases'[v] = NoRelease \/ releases'[v] \in Release_
      BY <1>5, <3>2, <3>3 DEF ReleasesKnown, NotesTypeOK, EditHistory
    <3>5. QED
      BY <1>5, <2>1, <3>1, <3>4 DEF ReleasesKnown, NotesTypeOK, EditHistory
  <2>2. CASE ~UNCHANGED <<tip, direct>>
    BY <1>5, <2>2, ReleaseNotesAssumption DEF ReleasesKnown, NotesTypeOK, EditHistory, Commits
  <2>3. QED
    BY <2>1, <2>2
<1>6. CASE UNCHANGED notesVars
  BY <1>6, ReleaseNotesAssumption DEF notesVars, NotesTypeOK, Commits, Releases, Release_,
     ReleasesKnown
<1>7. QED
  BY <1>1, <1>2, <1>3, <1>4, <1>5, <1>6 DEF NotesNext

-----------------------------------------------------------------------------
(* Types: the radar *)

RadarTyped ==
    /\ asked \in [ProbeSet -> [RadarDeps -> {NotAsked, Unknown} \cup Known]]
    /\ radarDeclared \in [Repos_ -> [ProbeSet -> [RadarDeps -> SUBSET Known]]]

LEMMA RadarPlaces ==
    /\ Places_ \in Nat \ {0} /\ MaxUpstream \in Nat
    /\ \A n \in 0..Places_ : (IF n < Places_ THEN n + 1 ELSE 0) \in 0..Places_
    /\ 1 \in Known /\ \A p \in ProbeSet : {1} \in RefsOf(p) /\ RefsOf(p) \subseteq SUBSET Known
<1>1. Len(Probes) = 3 /\ Len(WatchedRepos) \in Nat \ {0}
  BY RadarAssumption DEF Probes
<1>2. Places_ \in Nat \ {0}
  BY <1>1 DEF Places_
<1>3. 1 \in Known
  BY RadarAssumption DEF Known
<1>4. QED
  BY <1>2, <1>3, RadarAssumption DEF RefsOf

LEMMA RadarTypeStart == RadarInit => RadarTypeOK /\ RadarTyped
  BY RadarPlaces DEF RadarInit, RadarTypeOK, RadarTyped, Listing

LEMMA RadarTypeStep ==
    ASSUME RadarTypeOK, RadarTyped, [RadarNext]_radarVars
    PROVE  RadarTypeOK' /\ RadarTyped'
<1>1. CASE StartScan
  BY <1>1, RadarPlaces DEF StartScan, RadarTypeOK, RadarTyped, Listing
<1>2. CASE ReadManifest
  <2>1. radarQueue'.at \in {"manifest", "refs"}
    <3>1. \A left : [at |-> "refs", refs |-> left].at = "refs"
      OBVIOUS
    <3>2. CASE \E left : radarQueue' = [at |-> "refs", refs |-> left]
      BY <3>1, <3>2
    <3>3. CASE radarQueue' = Listing
      BY <3>3 DEF Listing
    <3>4. QED
      BY <1>2, <3>2, <3>3 DEF ReadManifest
  <2>2. scanning' \in 0..Places_
    BY <1>2, RadarPlaces DEF ReadManifest, NextProbe, RadarTypeOK
  <2>3. QED
    BY <1>2, <2>1, <2>2 DEF ReadManifest, RadarTypeOK, RadarTyped
<1>3. CASE ProbeEnds
  BY <1>3, RadarPlaces DEF ProbeEnds, NextProbe, Listing, RadarTypeOK, RadarTyped
<1>4. CASE RadarRefuses
  BY <1>4, RadarPlaces DEF RadarRefuses, Listing, RadarTypeOK, RadarTyped
<1>5. CASE UpstreamMoves
  <2>1. ASSUME NEW r \in Repos_, NEW p \in ProbeSet, NEW d \in RadarDeps, NEW pins \in RefsOf(p),
               radarDeclared' = [radarDeclared EXCEPT ![r][p][d] = pins]
        PROVE  /\ radarDeclared' \in [Repos_ -> [ProbeSet -> [RadarDeps -> SUBSET Known]]]
               /\ \A s \in Repos_, q \in ProbeSet, e \in RadarDeps : radarDeclared'[s][q][e] \in RefsOf(q)
    <3>1. pins \in SUBSET Known
      BY RadarPlaces
    <3>2. QED
      BY <2>1, <3>1 DEF RadarTypeOK, RadarTyped
  <2>2. /\ radarDeclared' \in [Repos_ -> [ProbeSet -> [RadarDeps -> SUBSET Known]]]
        /\ \A s \in Repos_, q \in ProbeSet, e \in RadarDeps : radarDeclared'[s][q][e] \in RefsOf(q)
    BY <1>5, <2>1 DEF UpstreamMoves, RadarTypeOK, RadarTyped
  <2>3. QED
    BY <1>5, <2>2, RadarPlaces DEF UpstreamMoves, RadarTypeOK, RadarTyped
<1>6. ASSUME NEW ref \in radarQueue.refs, NEW said \in {Unknown} \cup Known,
             Compare(ref, said)
      PROVE  RadarTypeOK' /\ RadarTyped'
  <2>1. PICK p, d : asked' = [asked EXCEPT ![p][d] = said]
    BY <1>6 DEF Compare
  <2>2. asked' \in [ProbeSet -> [RadarDeps -> {NotAsked, Unknown} \cup Known]]
    BY <2>1 DEF RadarTyped
  <2>3. radarQueue'.at = radarQueue.at
    BY <1>6 DEF Compare
  <2>4. QED
    BY <1>6, <2>2, <2>3 DEF Compare, RadarTypeOK, RadarTyped
<1>7. CASE UNCHANGED radarVars
  BY <1>7 DEF radarVars, RadarTypeOK, Places_, ProbeSet, Unknown, Known, Repos_, RefsOf, Probes,
     RadarTyped
<1>8. QED
  BY <1>1, <1>2, <1>3, <1>4, <1>5, <1>6, <1>7 DEF RadarNext

-----------------------------------------------------------------------------
(* Types: py-style *)

\* What is held in memory is of the files that were found.
ReadListed == style # NoStyle => DOMAIN style.read \subseteq style.files

LEMMA StyleEndsType ==
    ASSUME PyStyleTypeOK, NEW code \in 0..3, NEW why, NEW torn \in SUBSET StyleFiles,
           EndTearing(code, why, torn),
           sources' \in [StyleFiles -> Texts_ \cup {NoSource, ALink}], linked' \in Texts_,
           UNCHANGED <<authored, overtaken, styleEdits>>
    PROVE  PyStyleTypeOK' /\ ReadListed'
<1>1. style # NoStyle => style.wrote \subseteq StyleFiles
  BY DEF PyStyleTypeOK
<1>2. styleVerdict'.exit = code /\ styleVerdict'.torn = torn /\ styleVerdict'.wrote \subseteq StyleFiles
  BY <1>1 DEF EndTearing
<1>3. style' = NoStyle
  BY DEF EndTearing
<1>4. QED
  BY <1>2, <1>3 DEF PyStyleTypeOK, ReadListed

\* The command goes on: only these of its fields change.
LEMMA StyleGoesType ==
    ASSUME PyStyleTypeOK, StyleInv, ReadListed, style # NoStyle,
           NEW step \in {"read", "write", "approved", "refresh"}, NEW left \in SUBSET style.files,
           style'.step = step, style'.left = left, style'.files = style.files,
           DOMAIN style'.read \subseteq style.files, style'.wrote \subseteq DOMAIN style'.read,
           \A f \in DOMAIN style'.read : style'.read[f] \in Texts_,
           sources' \in [StyleFiles -> Texts_ \cup {NoSource, ALink}], linked' \in Texts_,
           UNCHANGED <<authored, styleVerdict, overtaken, styleEdits>>
    PROVE  PyStyleTypeOK' /\ ReadListed'
BY DEF PyStyleTypeOK, ReadListed

LEMMA StyleAsideType ==
    ASSUME PyStyleTypeOK, StyleInv, ReadListed, style # NoStyle, NEW f, PutAside(f),
           UNCHANGED <<sources, linked, authored, overtaken, styleEdits>>
    PROVE  PyStyleTypeOK' /\ ReadListed'
<1>1. StyleRuns
  BY DEF StyleInv
<1>2. /\ style'.step = style.step /\ style'.read = style.read /\ style'.wrote = style.wrote
      /\ style'.left = style.left \ {f} /\ style'.files = style.files
  BY <1>1 DEF StyleRuns, StyleFields, PutAside
<1>3. UNCHANGED styleVerdict
  BY DEF PutAside
<1>4. QED
  BY <1>2, <1>3, StyleGoesType DEF PyStyleTypeOK, ReadListed

LEMMA StyleHoldsType ==
    ASSUME PyStyleTypeOK, StyleInv, ReadListed, style # NoStyle, NEW f \in style.left, NEW text \in Texts_,
           style' = [style EXCEPT !.left = @ \ {f}, !.read = With(@, f, text)],
           UNCHANGED <<sources, linked, authored, styleVerdict, overtaken, styleEdits>>
    PROVE  PyStyleTypeOK' /\ ReadListed'
<1>1. StyleRuns
  BY DEF StyleInv
<1>2. /\ style'.step = style.step /\ style'.read = With(style.read, f, text)
      /\ style'.wrote = style.wrote
      /\ style'.left = style.left \ {f} /\ style'.files = style.files
  BY <1>1 DEF StyleRuns, StyleFields
<1>3. /\ DOMAIN style'.read = DOMAIN style.read \cup {f}
      /\ \A g \in DOMAIN style'.read : style'.read[g] \in Texts_
  BY <1>2 DEF With, PyStyleTypeOK
<1>4. QED
  BY <1>2, <1>3, StyleGoesType DEF PyStyleTypeOK, ReadListed

LEMMA TornIsText == TornText \in Texts_
BY DEF TornText, Outside, Texts_, Meanings, Directives

LEMMA StyleTypeStart == PyStyleInit => PyStyleTypeOK /\ ReadListed
BY PyStyleAssumption DEF PyStyleInit, PyStyleTypeOK, Outside, NoStyle, Unstyled, Texts_, Meanings,
   Directives, ReadListed

LEMMA StyleTypeStep ==
    ASSUME PyStyleTypeOK, ReadListed, StyleInv, [PyStyleNext]_styleVars
    PROVE  PyStyleTypeOK' /\ ReadListed'
<1>1. ASSUME NEW place \in ConfigPlaces, NEW use \in {"none", "explicit", "found"}, NEW select,
             NEW ignore, NEW found \in BOOLEAN, NEW flag, NEW mode \in {"check", "fix"},
             style = NoStyle /\ styleVerdict = Unstyled /\ StartStyle(mode, place, use, select, ignore, flag, found)
      PROVE  PyStyleTypeOK' /\ ReadListed'
  <2>1. CASE EndStyle(2, "usage")
    BY <1>1, <2>1, StyleEndsType DEF StartStyle, EndStyle, PyStyleTypeOK
  <2>2. CASE ~ EndStyle(2, "usage")
    <3> DEFINE config == LoadConfig(place, use)
               found_ == DiscoverFiles(config)
    <3>1. found_ \subseteq StyleFiles
      BY DEF DiscoverFiles
    <3> HIDE DEF found_
    <3>2. /\ style'.step = "read" /\ style'.files = found_ /\ style'.left = found_
          /\ style'.read = [g \in {} |-> NoSource] /\ style'.wrote = {}
          /\ UNCHANGED <<sources, linked, authored, styleVerdict, overtaken, styleEdits>>
      BY <1>1, <2>2 DEF StartStyle, found_
    <3>3. DOMAIN style'.read = {}
      BY <3>2
    <3>4. QED
      BY <3>1, <3>2, <3>3 DEF PyStyleTypeOK, ReadListed
  <2>3. QED
    BY <2>1, <2>2
<1>2. ASSUME NEW f \in StyleFiles, ReadForCheck(f) PROVE PyStyleTypeOK' /\ ReadListed'
  <2>1. style # NoStyle /\ f \in style.left /\ UNCHANGED <<sources, linked, authored, overtaken, styleEdits>>
    BY <1>2 DEF ReadForCheck, Reading
  <2>2. CASE sources[f] = NoSource
    BY <1>2, <2>1, <2>2, StyleEndsType DEF ReadForCheck, EndStyle, PyStyleTypeOK
  <2>3. CASE sources[f] # NoSource
    <3>1. ReadSource(f) \in Texts_
      BY <2>3 DEF ReadSource, PyStyleTypeOK
    <3>2. QED
      BY <1>2, <2>1, <2>3, <3>1, StyleHoldsType DEF ReadForCheck
  <2>4. QED
    BY <2>2, <2>3
<1>3. ASSUME NEW f \in StyleFiles, ReadForFix(f) PROVE PyStyleTypeOK' /\ ReadListed'
  <2>1. style # NoStyle /\ f \in style.left /\ UNCHANGED <<sources, linked, authored, overtaken, styleEdits>>
    BY <1>3 DEF ReadForFix, Reading
  <2>2. \/ \E why : EndStyle(2, why)
        \/ PutAside(f)
        \/ \E text \in Texts_ : /\ style' = [style EXCEPT !.left = @ \ {f}, !.read = With(@, f, text)]
                                /\ UNCHANGED styleVerdict
    BY <1>3 DEF ReadForFix, FixOneFile
  <2>3. ASSUME NEW why, EndStyle(2, why) PROVE PyStyleTypeOK' /\ ReadListed'
    BY <2>1, <2>3, StyleEndsType DEF EndStyle, PyStyleTypeOK
  <2>4. QED
    BY <2>1, <2>2, <2>3, StyleAsideType, StyleHoldsType
<1>4. ASSUME NEW f \in StyleFiles, ApproveWrite(f) PROVE PyStyleTypeOK' /\ ReadListed'
  <2>1. style # NoStyle /\ UNCHANGED <<sources, linked, authored, overtaken, styleEdits>> /\ StyleRuns
    BY <1>4 DEF ApproveWrite, StyleInv
  <2>2. CASE sources[f] = ALink
    BY <1>4, <2>1, <2>2, StyleAsideType DEF ApproveWrite
  <2>3. CASE sources[f] # ALink
    <3>1. /\ style'.step = "approved" /\ style'.read = style.read /\ style'.wrote = style.wrote
          /\ style'.left = style.left /\ style'.files = style.files /\ UNCHANGED styleVerdict
      BY <1>4, <2>1, <2>3 DEF ApproveWrite, StyleRuns, StyleFields
    <3>2. QED
      BY <2>1, <3>1, StyleGoesType DEF PyStyleTypeOK, ReadListed
  <2>4. QED
    BY <2>2, <2>3
<1>5. CASE EndCheck
  <2>1. \E code \in 0..1 : EndStyle(code, "checked")
    BY <1>5 DEF EndCheck
  <2>2. QED
    BY <1>5, <2>1, StyleEndsType DEF EndCheck, EndStyle, PyStyleTypeOK
<1>6. CASE AllRead
  <2>1. style # NoStyle /\ UNCHANGED <<sources, linked, authored, overtaken, styleEdits>> /\ StyleRuns
    BY <1>6 DEF AllRead, StyleInv
  <2>2. CASE EndStyle(2, "limit")
    BY <2>1, <2>2, StyleEndsType DEF EndStyle, PyStyleTypeOK
  <2>3. CASE ~ EndStyle(2, "limit")
    <3>1. /\ style'.step = "write" /\ style'.read = style.read /\ style'.wrote = style.wrote
          /\ style'.left = IF style.flag = "dry-run" THEN {} ELSE DOMAIN style.read
          /\ style'.files = style.files /\ UNCHANGED styleVerdict
      BY <1>6, <2>1, <2>3 DEF AllRead, StyleRuns, StyleFields
    <3>2. style'.left \in SUBSET style.files
      BY <2>1, <3>1 DEF ReadListed
    <3>3. QED
      BY <2>1, <3>1, <3>2, StyleGoesType DEF PyStyleTypeOK, ReadListed
  <2>4. QED
    BY <2>2, <2>3
<1>7. CASE WriteSource
  <2> DEFINE f == style.target
  <2>1. /\ style # NoStyle /\ UNCHANGED <<authored, overtaken, styleEdits>> /\ StyleRuns
        /\ f \in style.left /\ f \in DOMAIN style.read /\ f \in StyleFiles
    BY <1>7 DEF WriteSource, StyleInv, StyleRuns, WritesRationed
  <2>2. \A text \in Texts_ : Overwrite(f, text)
          => sources' \in [StyleFiles -> Texts_ \cup {NoSource, ALink}] /\ linked' \in Texts_
    BY <2>1 DEF Overwrite, PyStyleTypeOK
  <2>3. style.read[f] \in Texts_
    BY <2>1 DEF PyStyleTypeOK
  <2> HIDE DEF f
  <2>4. CASE /\ Overwrite(f, style.read[f])
             /\ style' = [style EXCEPT !.step = "write", !.left = @ \ {f}, !.wrote = @ \cup {f}]
             /\ UNCHANGED styleVerdict
    <3>1. /\ style'.step = "write" /\ style'.read = style.read /\ style'.wrote = style.wrote \cup {f}
          /\ style'.left = style.left \ {f} /\ style'.files = style.files
      BY <2>1, <2>4 DEF StyleRuns, StyleFields
    <3>2. QED
      BY <2>1, <2>2, <2>3, <2>4, <3>1, StyleGoesType DEF PyStyleTypeOK, ReadListed
  <2>5. CASE EndStyle(2, "write") /\ UNCHANGED <<sources, linked>>
    BY <2>1, <2>5, StyleEndsType DEF EndStyle, PyStyleTypeOK
  <2>6. CASE EndTearing(2, "write", {f}) /\ Overwrite(f, TornText)
    BY <2>1, <2>2, <2>6, StyleEndsType, TornIsText
  <2>7. QED
    BY <1>7, <2>4, <2>5, <2>6 DEF WriteSource, f
<1>8. CASE Refresh
  <2>1. \E code \in 0..2 : EndStyle(code, "fixed")
    BY <1>8 DEF Refresh
  <2>2. QED
    BY <1>8, <2>1, StyleEndsType DEF Refresh, EndStyle, PyStyleTypeOK
<1>9. CASE StyleKilled
  BY <1>9, StyleEndsType DEF StyleKilled, EndStyle, PyStyleTypeOK
<1>10. ASSUME NEW f \in StyleFiles, NEW t \in StyleTexts \cup {NoSource, ALink},
              EditSource(f, t)
       PROVE  PyStyleTypeOK' /\ ReadListed'
  BY <1>10, PyStyleAssumption DEF EditSource, PyStyleTypeOK, IsText, Texts_, ReadListed
<1>11. CASE UNCHANGED styleVars
  BY <1>11 DEF styleVars, PyStyleTypeOK, ReadListed
<1>12. QED
  BY <1>1, <1>2, <1>3, <1>4, <1>5, <1>6, <1>7, <1>8, <1>9, <1>10, <1>11 DEF PyStyleNext

-----------------------------------------------------------------------------
(* Types: acyclic-imports *)

LEMMA ImportsTypeStart == ImportsInit => ImportsTypeOK
  BY PyStyleAssumption, ImportsAssumption DEF ImportsInit, ImportsTypeOK

LEMMA ImportsTypeStep ==
    ASSUME ImportsTypeOK, [ImportsNext]_importVars
    PROVE  ImportsTypeOK'
<1>1. ASSUME NEW m \in StyleModules, VisitRoot(m) PROVE ImportsTypeOK'
  BY <1>1, PyStyleAssumption, ImportsAssumption DEF VisitRoot, ImportsTypeOK, VisitModule, Adjacent,
     ImportTargets, DropParts, Candidates
<1>2. ASSUME NEW m \in StyleModules, LookAt(m) PROVE ImportsTypeOK'
  <2>1. CASE VisitModule(m)
    BY <1>2, <2>1 DEF ImportsTypeOK, VisitModule, Adjacent
  <2>2. CASE ~VisitModule(m)
    <3>1. CycleFrom(m) \subseteq StyleModules
      BY DEF ImportsTypeOK, CycleFrom
    <3>2. targetsLeft' = [targetsLeft EXCEPT ![Last(importPath)] = @ \ {m}]
      BY <1>2, <2>2 DEF LookAt
    <3>3. targetsLeft' \in [StyleModules -> SUBSET StyleModules]
      BY <3>2 DEF ImportsTypeOK
    <3>4. QED
      BY <1>2, <2>2, <3>1, <3>3 DEF ImportsTypeOK, LookAt
  <2>3. QED
    BY <2>1, <2>2
<1>3. CASE LeaveModule
  <2>1. importPath' \in Seq(StyleModules)
    BY <1>3 DEF ImportsTypeOK, LeaveModule, Front
  <2>2. visited' \in [StyleModules -> 0..2]
    <3>1. PICK m : visited' = [visited EXCEPT ![m] = 2]
      BY <1>3 DEF LeaveModule
    <3>2. \A x \in StyleModules : visited'[x] \in 0..2
      BY <3>1 DEF ImportsTypeOK
    <3>3. QED
      BY <3>1, <3>2 DEF ImportsTypeOK
  <2>3. QED
    BY <1>3, <2>1, <2>2 DEF ImportsTypeOK, LeaveModule
<1>4. CASE UNCHANGED importVars
  BY <1>4, PyStyleAssumption, ImportsAssumption DEF importVars, ImportsTypeOK
<1>5. QED
  BY <1>1, <1>2, <1>3, <1>4 DEF ImportsNext

-----------------------------------------------------------------------------
(* Types: init and the audits of the callers *)

LEMMA FleetTypeStart == FleetInit => FleetTypeOK
<1>1. FleetInit => FleetInv
  BY FleetStart
<1>2. FleetInv => /\ release \in DOMAIN Anchors /\ edition \in [Required \cup OptIn -> Nat]
                  /\ work \in [FileNames -> Texts \cup {NoText}]
  BY DEF FleetInv, CheckoutSound, Checkouts_
<1>3. FleetInv => release \in Nat
  BY <1>2, RepoInitAssumption
<1>4. FleetInit => ignored \in BOOLEAN
  BY Zenon DEF FleetInit, RepoInitInit
<1>5. FleetInit => verdict.exit = 0 /\ verdict.strict \in BOOLEAN /\ verdict.runs \in BOOLEAN
  <2>1. NoVerdict.strict = FALSE /\ NoVerdict.runs = TRUE /\ NoVerdict.exit = 0
    BY DEF NoVerdict
  <2>2. QED
    BY <2>1 DEF FleetInit
<1>6. FleetInit => staged \in 0..release /\ repoEdits \in 0..MaxRepoEdits /\ initRuns \in 0..MaxInits
  BY <1>1, <1>3, RepoInitAssumption DEF FleetInit, RepoInitInit
<1>7. FleetInit => justfile \subseteq {"fetch", "interop"} /\ hook \in Hooks /\ initRun.exit \in 0..2
  BY DEF FleetInit, RepoInitInit, Hooks, NoRun
<1>8. FleetInit => origin \in [FileNames -> Texts \cup {NoText}]
  BY <1>1, <1>2 DEF FleetInit
<1>9. QED
  BY <1>1, <1>2, <1>4, <1>5, <1>6, <1>7, <1>8 DEF FleetTypeOK, RepoInitTypeOK

\* What a command of init or of its hook leaves behind.
LEMMA InitCommandType ==
    ASSUME FleetTypeOK, FleetInv, RepoInitNext
    PROVE  /\ staged' \in 0..release' /\ ignored' \in BOOLEAN
           /\ justfile' \subseteq {"fetch", "interop"} /\ hook' \in Hooks /\ initRun'.exit \in 0..2
           /\ repoEdits' \in 0..MaxRepoEdits /\ initRuns' \in 0..MaxInits
<1> USE DEF FleetTypeOK, RepoInitTypeOK
<1>0. release \in Nat /\ staged \in 0..release /\ MaxInits \in Nat /\ MaxRepoEdits \in Nat
      /\ initRuns \in 0..MaxInits /\ repoEdits \in 0..MaxRepoEdits
  BY RepoInitAssumption
<1>1. StartInit => initRuns' \in 0..MaxInits
  BY <1>0 DEF StartInit
<1>2. ASSUME NEW force, NEW hooks, Stages(force, hooks)
      PROVE  /\ staged' \in 0..release' /\ ignored' \in BOOLEAN /\ repoEdits' \in 0..MaxRepoEdits
             /\ justfile' \subseteq {"fetch", "interop"} /\ hook' \in Hooks
  <2>1. ignored' \in BOOLEAN
    BY <1>2, Zenon DEF Stages
  <2>2. staged' = release /\ release' = release
    BY <1>2 DEF Stages
  <2>3. staged' \in 0..release'
    BY <1>0, <2>2
  <2>4. repoEdits' = repoEdits /\ justfile' = justfile /\ (hook' = hook \/ hook' = "ours")
    BY <1>2 DEF Stages
  <2>5. QED
    BY <1>0, <2>1, <2>3, <2>4 DEF Hooks
<1>3. \A said, code : Ended(said, code) => initRun'.exit = code
  BY EndedIs
<1>4. ASSUME NEW force, NEW hooks, NEW withWorkflows, NEW gates, NEW ref,
             Init_(force, hooks, withWorkflows, gates, ref)
      PROVE  StartInit /\ Stages(force, hooks) /\ initRun'.exit \in 0..2
  <2>1. StartInit /\ Stages(force, hooks)
    BY <1>4, Zenon DEF Init_
  <2>2. \/ Ended("usage", 2) \/ Ended("staged", 0)
        \/ initRun' = [did |-> "regenerated", exit |-> 0, parked |-> Parked(work, Required \cup gates)]
    BY <1>4, Zenon DEF Init_
  <2>3. initRun'.exit = 2 \/ initRun'.exit = 0
    BY <1>3, <2>2
  <2>4. QED
    BY <2>1, <2>3
<1>5. ASSUME NEW force, InitCut(force, Baseline)
      PROVE  StartInit /\ (\E hooks : Stages(force, hooks)) /\ initRun'.exit \in 0..2
  <2>1. StartInit /\ (\E hooks : Stages(force, hooks)) /\ Ended("cut", 1)
    BY <1>5, Zenon DEF InitCut
  <2>2. initRun'.exit = 1
    BY <1>3, <2>1
  <2>3. QED
    BY <2>1, <2>2
<1>6. ASSUME (\E force \in BOOLEAN : HookInstall(force) \/ HookUninstall(force)) \/ HookCheck \/ InitCheck
      PROVE  /\ StartInit /\ initRun'.exit \in 0..2 /\ hook' \in Hooks
             /\ UNCHANGED <<release, staged, ignored, justfile, repoEdits>>
  <2>1. ASSUME NEW force \in BOOLEAN, HookInstall(force) \/ HookUninstall(force)
        PROVE  /\ StartInit /\ hook' \in Hooks /\ initRun'.exit \in 0..2
               /\ UNCHANGED <<release, staged, ignored, justfile, repoEdits>>
    <3>1. CASE HookInstall(force)
      <4>1. (hook' = hook \/ hook' = "ours") /\ (initRun'.exit = 0 \/ initRun'.exit = 1)
        BY <3>1, EndedIs, Zenon DEF HookInstall
      <4>2. StartInit /\ UNCHANGED <<release, staged, ignored, justfile, repoEdits>>
        BY <3>1, Zenon DEF HookInstall
      <4>3. hook \in Hooks
        BY Zenon
      <4>4. hook' \in Hooks
        BY <4>1, <4>3 DEF Hooks
      <4>5. initRun'.exit \in 0..2
        BY <4>1
      <4>6. QED
        BY <4>2, <4>4, <4>5, Zenon
    <3>2. CASE HookUninstall(force)
      <4>1. (hook' = hook \/ hook' = "none") /\ (initRun'.exit = 0 \/ initRun'.exit = 1)
        BY <3>2, EndedIs, Zenon DEF HookUninstall
      <4>2. StartInit /\ UNCHANGED <<release, staged, ignored, justfile, repoEdits>>
        BY <3>2, Zenon DEF HookUninstall
      <4>3. hook \in Hooks
        BY Zenon
      <4>4. hook' \in Hooks
        BY <4>1, <4>3 DEF Hooks
      <4>5. initRun'.exit \in 0..2
        BY <4>1
      <4>6. QED
        BY <4>2, <4>4, <4>5, Zenon
    <3>3. QED
      BY <2>1, <3>1, <3>2
  <2>2. ASSUME HookCheck \/ InitCheck
        PROVE  /\ StartInit /\ hook' \in Hooks /\ initRun'.exit \in 0..2
               /\ UNCHANGED <<release, staged, ignored, justfile, repoEdits>>
    BY <2>2, EndedIs DEF HookCheck, InitCheck
  <2>3. QED
    BY <1>6, <2>1, <2>2
<1>7. CASE Release
  BY <1>0, <1>7, EndedIs DEF Release
<1>8. CASE EditRepo
  <2>1. /\ UNCHANGED <<release, staged, initRuns>> /\ initRun'.exit = 0
        /\ repoEdits' = repoEdits + 1 /\ repoEdits < MaxRepoEdits
    BY <1>8, EndedIs DEF EditRepo, EditCaller, EditRest
  <2>2. (ignored' = ignored \/ ignored' = FALSE) /\ justfile' \subseteq {"fetch", "interop"} /\ hook' \in Hooks
    BY <1>8 DEF EditRepo, EditCaller, EditRest, Hooks
  <2>3. ignored' \in BOOLEAN
    BY <2>2, Zenon
  <2>4. QED
    BY <1>0, <2>1, <2>2, <2>3
<1>9. QED
  <2>1. CASE \E force, withWorkflows, gates, ref : Init_(force, withWorkflows, withWorkflows, gates, ref)
    BY <1>1, <1>2, <1>4, <2>1
  <2>2. CASE \E force : InitCut(force, Baseline)
    BY <1>1, <1>2, <1>5, <2>2
  <2>3. CASE (\E force \in BOOLEAN : HookInstall(force) \/ HookUninstall(force)) \/ HookCheck \/ InitCheck
    BY <1>1, <1>6, <2>3
  <2>4. QED
    BY <1>7, <1>8, <2>1, <2>2, <2>3, Zenon DEF RepoInitNext

LEMMA AuditType ==
    ASSUME FleetTypeOK, StartInit, UNCHANGED <<release, edition, work, staged, ignored, justfile, hook, repoEdits, origin>>,
           initRun'.exit \in 0..2,
           verdict'.exit \in 0..2 /\ verdict'.strict \in BOOLEAN /\ verdict'.runs \in BOOLEAN
    PROVE  FleetTypeOK'
<1>1. initRuns' \in 0..MaxInits
  BY RepoInitAssumption DEF StartInit, FleetTypeOK, RepoInitTypeOK
<1>2. QED
  BY <1>1 DEF FleetTypeOK, RepoInitTypeOK

LEMMA FleetTypeStep ==
    ASSUME FleetTypeOK, FleetInv, [FleetNext]_fleetVars
    PROVE  FleetTypeOK'
<1>0. /\ release' \in DOMAIN Anchors /\ edition' \in [Required \cup OptIn -> Nat]
      /\ work' \in [FileNames -> Texts \cup {NoText}]
  BY FleetInvStep DEF FleetInv, CheckoutSound, Checkouts_
<1>1. NoVerdict.strict \in BOOLEAN /\ NoVerdict.runs \in BOOLEAN /\ NoVerdict.exit \in 0..2
  <2>1. NoVerdict.strict = FALSE /\ NoVerdict.runs = TRUE
    BY Zenon DEF NoVerdict
  <2>2. QED
    BY <2>1 DEF NoVerdict
<1>2. CASE RepoInitNext /\ verdict' = NoVerdict /\ UNCHANGED origin
  <2>1. verdict'.exit \in 0..2 /\ verdict'.strict \in BOOLEAN /\ verdict'.runs \in BOOLEAN
    BY <1>1, <1>2
  <2>2. QED
    BY <1>0, <1>2, <2>1, InitCommandType DEF FleetTypeOK, RepoInitTypeOK
<1>3. ASSUME NEW own \in OwnWorkflows, NEW strict \in BOOLEAN, NEW allowed, CiAudit(own, strict, allowed)
      PROVE  FleetTypeOK'
  <2>1. PICK code \in 0..1 :
           verdict' = [by |-> "ci-audit", strict |-> strict, exit |-> code,
                       runs |-> allowed # {} \/ (Runs(own) /\ Bounded(own))]
    BY <1>3 DEF CiAudit
  <2>2. verdict'.exit = code /\ verdict'.strict = strict
    BY <2>1
  <2>3. verdict'.runs \in BOOLEAN
    BY <2>1
  <2>4. /\ StartInit /\ initRun'.exit = 0
        /\ UNCHANGED <<release, edition, work, staged, ignored, justfile, hook, repoEdits, origin>>
    BY <1>3, EndedIs DEF CiAudit, StartAudit
  <2>5. QED
    BY <2>2, <2>3, <2>4, AuditType
<1>4. CASE CiAuditUnreadable
  <2>1. verdict' = [NoVerdict EXCEPT !.by = "ci-audit", !.exit = 2]
    BY <1>4 DEF CiAuditUnreadable
  <2>2. verdict'.exit = 2 /\ verdict'.strict = NoVerdict.strict /\ verdict'.runs = NoVerdict.runs
    BY <2>1 DEF NoVerdict
  <2>3. verdict'.exit \in 0..2 /\ verdict'.strict \in BOOLEAN /\ verdict'.runs \in BOOLEAN
    BY <1>1, <2>2
  <2>4. /\ StartInit /\ initRun'.exit = 2
        /\ UNCHANGED <<release, edition, work, staged, ignored, justfile, hook, repoEdits, origin>>
    BY <1>4, EndedIs DEF CiAuditUnreadable, StartAudit
  <2>5. QED
    BY <2>3, <2>4, AuditType
<1>5. ASSUME NEW there \in BOOLEAN, NEW strict \in BOOLEAN, NEW warnOnly \in BOOLEAN,
             FleetScan(there, strict, warnOnly)
      PROVE  FleetTypeOK'
  <2>1. verdict' = [by |-> IF there THEN "fleet" ELSE "fleet here", strict |-> strict, runs |-> TRUE,
                    exit |-> IF warnOnly \/ (FleetOk(Scanned(there)) /\ (strict => ~FloatingIn(Scanned(there))))
                             THEN 0 ELSE 1]
    BY <1>5, Zenon DEF FleetScan
  <2>2. verdict'.exit = 0 \/ verdict'.exit = 1
    BY <2>1, Zenon
  <2>3. verdict'.strict = strict /\ verdict'.runs = TRUE
    BY <2>1, Zenon
  <2>4. /\ StartInit /\ initRun'.exit = 0
        /\ UNCHANGED <<release, edition, work, staged, ignored, justfile, hook, repoEdits, origin>>
    BY <1>5, EndedIs, Zenon DEF FleetScan, StartAudit
  <2>5. verdict'.exit \in 0..2 /\ verdict'.strict \in BOOLEAN /\ verdict'.runs \in BOOLEAN
    <3>1. verdict'.strict \in BOOLEAN /\ verdict'.runs \in BOOLEAN
      BY <2>3, Zenon
    <3>2. QED
      BY <2>2, <3>1
  <2>6. initRun'.exit \in 0..2
    BY <2>4
  <2>7. QED
    BY <2>4, <2>5, <2>6, AuditType
<1>6. CASE Push
  <2>1. UNCHANGED repoInitVars /\ origin' = work /\ verdict' = NoVerdict
    BY <1>6 DEF Push
  <2>2. verdict'.exit \in 0..2 /\ verdict'.strict \in BOOLEAN /\ verdict'.runs \in BOOLEAN
    BY <1>1, <2>1
  <2>3. RepoInitTypeOK' /\ origin' \in [FileNames -> Texts \cup {NoText}]
    BY <2>1 DEF repoInitVars, FleetTypeOK, RepoInitTypeOK
  <2>4. QED
    BY <2>2, <2>3 DEF FleetTypeOK
<1>7. CASE UNCHANGED fleetVars
  BY <1>7 DEF fleetVars, FleetTypeOK, RepoInitTypeOK
<1>8. QED
  BY <1>2, <1>3, <1>4, <1>5, <1>6, <1>7, Zenon DEF FleetNext

=============================================================================
