------------------------------ MODULE PyStyle ------------------------------
(***************************************************************************)
(* py-style (lint/py_style.py, py_style_config.py, py_style_graph.py): the *)
(* check of Python sources against the layout rules, and the fix, which    *)
(* reads all files, has each rewritten in memory, and only then writes,    *)
(* while developers go on editing.  What a fixer does to a text is not     *)
(* modelled: it may do anything to it, and the engine's own checks decide  *)
(* what reaches the disk.  A text is what those can tell apart: whether it *)
(* is Python, what it means, which rules it breaks, and its directives.    *)
(* The second part is the import graph of the scanned tree and the search  *)
(* for its cycles.                                                         *)
(***************************************************************************)
EXTENDS Naturals, FiniteSets, Sequences, SequencesExt

CONSTANTS
    StyleFiles,     \* Python files below the scanned directory
    StyleRules,     \* CHECK_RULES
    Fixable,        \* those with a fixer
    StyleTexts,     \* the texts developers write
    StyleConfigs,   \* configurations that parse
    UnknownRule,    \* an id of no rule
    MAX_FIX_FILES,
    MaxStyleEdits,  \* bound: edits while a command runs
    NoSource,       \* no such file, or one that cannot be read
    ALink,          \* a symbolic link to a file outside of the scanned directory
    NoConfig,       \* no such configuration file, or no table in it
    BadConfig,      \* unreadable, no TOML, an unknown key or rule, a wrong type
    NoDirective

\* The rules a comment names, all of them for "*", and whether it gives a reason.
Directives == [rules : SUBSET StyleRules, reason : BOOLEAN] \cup {NoDirective}
Meanings   == {"m", "n"}
Texts_     == [kind : {"python", "broken", "binary"}, means : Meanings,
               breaks : SUBSET StyleRules, header : Directives, inline : Directives]
ConfigOf   == [select : SUBSET StyleRules, ignore : SUBSET StyleRules,
               exclude : SUBSET StyleFiles,
               exempt : SUBSET (StyleFiles \X (StyleRules \cup {"parse-error"})),
               warnings : SUBSET (StyleRules \cup {"parse-error"})]

ASSUME PyStyleAssumption ==
    /\ Fixable \subseteq StyleRules /\ "parse-error" \notin StyleRules
    /\ UnknownRule \notin StyleRules
    /\ StyleTexts \subseteq Texts_ /\ StyleConfigs \subseteq ConfigOf
    /\ {NoSource, ALink} \cap Texts_ = {} /\ {NoConfig, BadConfig} \cap ConfigOf = {}
    /\ IsFiniteSet(StyleFiles) /\ MAX_FIX_FILES \in Nat /\ MaxStyleEdits \in Nat

DefaultConfig == [select |-> {}, ignore |-> {}, exclude |-> {}, exempt |-> {}, warnings |-> {}]
Outside == [kind |-> "python", means |-> "m", breaks |-> Fixable,
            header |-> NoDirective, inline |-> NoDirective]
\* What is left of a file when its writing is cut.
TornText == [Outside EXCEPT !.kind = "broken", !.breaks = {}]

VARIABLES
    sources,       \* what is at each path
    linked,        \* the file the links lead to
    authored,      \* history: what each file meant when a developer last wrote it
    style,         \* the command that runs
    styleVerdict,  \* how it ended
    overtaken,     \* history: files that changed under a rewrite of theirs
    styleEdits

styleVars == <<sources, linked, authored, style, styleVerdict, overtaken, styleEdits>>

NoStyle   == [step |-> "none"]
Unstyled  == [exit |-> 3, why |-> "runs", torn |-> {}, wrote |-> {}]
IsText(t) == t \notin {NoSource, ALink}

PyStyleTypeOK ==
    /\ sources \in [StyleFiles -> Texts_ \cup {NoSource, ALink}]
    /\ linked \in Texts_
    /\ authored \in [StyleFiles -> Meanings]
    /\ style # NoStyle =>
          /\ style.step \in {"read", "write", "approved", "refresh"}
          /\ style.left \subseteq style.files /\ style.files \subseteq StyleFiles
          /\ style.wrote \subseteq DOMAIN style.read /\ DOMAIN style.read \subseteq StyleFiles
          /\ \A f \in DOMAIN style.read : style.read[f] \in Texts_
    /\ styleVerdict.exit \in 0..3 /\ styleVerdict.torn \cup styleVerdict.wrote \subseteq StyleFiles
    /\ overtaken \subseteq StyleFiles /\ styleEdits \in 0..MaxStyleEdits

-----------------------------------------------------------------------------
(* Configuration and selection                                              *)

\* load_config: the named file, which must be there, or the first that is.
LoadConfig(at, use) ==
    CASE use = "none"     -> DefaultConfig
      [] use = "explicit" -> IF at.explicit = NoConfig THEN BadConfig ELSE at.explicit
      [] use = "found"    -> IF at.standalone # NoConfig THEN at.standalone
                             ELSE IF at.pyproject # NoConfig THEN at.pyproject
                             ELSE DefaultConfig

\* The command line's selection replaces the configured one; what either ignores goes last.
ActiveRuleIds(config, select, ignore) ==
    LET selected == IF select # {} THEN select
                    ELSE IF config.select # {} THEN config.select ELSE StyleRules
    IN  selected \ (ignore \cup config.ignore)

\* The walk follows no link and enters no excluded directory.
DiscoverFiles(config) == {f \in StyleFiles : IsText(sources[f])} \ config.exclude

-----------------------------------------------------------------------------
(* Findings and what excuses them                                           *)

\* A directive without a reason exempts nothing.
Excuses(directive, rule) == directive # NoDirective /\ directive.reason /\ rule \in directive.rules

\* A source that does not parse has one finding, and no directive of its is read.
StyleFindings(text, active) ==
    IF text.kind = "broken" THEN {"parse-error"} ELSE active \cap text.breaks

Exempted(f, rule, text, config) ==
    \/ <<f, rule>> \in config.exempt
    \/ text.kind # "broken" /\ (Excuses(text.header, rule) \/ Excuses(text.inline, rule))

\* The severity table of a run has check rules only: a parse error is an error.
SeverityError(rule, config) == rule \notin config.warnings \cap StyleRules

StyleErrors(read, active, config) ==
    {e \in (DOMAIN read) \X (StyleRules \cup {"parse-error"}) :
        /\ e[2] \in StyleFindings(read[e[1]], active)
        /\ ~Exempted(e[1], e[2], read[e[1]], config)
        /\ SeverityError(e[2], config)}

-----------------------------------------------------------------------------
(* The commands                                                             *)

EndTearing(exit, why, torn) ==
    /\ style' = NoStyle
    /\ styleVerdict' = [exit |-> exit, why |-> why, torn |-> torn,
                        wrote |-> IF style = NoStyle THEN {} ELSE style.wrote]
EndStyle(exit, why) == EndTearing(exit, why, {})

\* found: every path that was named is there.
StartStyle(cmd, at, use, select, ignore, flag, found) ==
    /\ style = NoStyle /\ styleVerdict = Unstyled   \* bound: one command
    /\ LET config == LoadConfig(at, use)
       IN  IF config = BadConfig \/ ~found \/ UnknownRule \in select \cup ignore
           THEN EndStyle(2, "usage")
           ELSE /\ style' = [step |-> "read", cmd |-> cmd, flag |-> flag, config |-> config,
                             active |-> ActiveRuleIds(config, select, ignore),
                             files |-> DiscoverFiles(config), left |-> DiscoverFiles(config),
                             read |-> [g \in {} |-> NoSource], wrote |-> {}, target |-> NoSource]
                /\ UNCHANGED styleVerdict
    /\ UNCHANGED <<sources, linked, authored, overtaken, styleEdits>>

Reading(cmd, f) == style # NoStyle /\ style.step = "read" /\ style.cmd = cmd /\ f \in style.left

\* What is held in memory, and one file more.
With(texts, f, text) == [g \in DOMAIN texts \cup {f} |-> IF g = f THEN text ELSE texts[g]]

\* read_bytes follows a link that took the file's place.
ReadSource(f) == IF sources[f] = ALink THEN linked ELSE sources[f]

ReadForCheck(f) ==
    /\ Reading("check", f)
    /\ IF sources[f] = NoSource THEN EndStyle(2, "read")
       ELSE /\ style' = [style EXCEPT !.left = @ \ {f}, !.read = With(@, f, ReadSource(f))]
            /\ UNCHANGED styleVerdict
    /\ UNCHANGED <<sources, linked, authored, overtaken, styleEdits>>

EndCheck ==
    /\ style # NoStyle /\ style.cmd = "check" /\ style.left = {}
    /\ LET errors == StyleErrors(style.read, style.active, style.config)
       IN  EndStyle(IF style.flag # "warn-only" /\ errors # {} THEN 1 ELSE 0, "checked")
    /\ UNCHANGED <<sources, linked, authored, overtaken, styleEdits>>

Fixers(text) == {r \in style.active \cap Fixable : ~Excuses(text.header, r)}

(* _fix_one_file: at most five rounds over the fixers.  Each may remove     *)
(* findings of its own rule; what else it does to the text is unknown, and  *)
(* the last round has changed nothing.                                      *)
FixOneFile(text, fixers) ==
    {t \in Texts_ : /\ t.kind = "python" /\ t.header = text.header /\ t.inline = text.inline
                    /\ t.breaks \subseteq text.breaks /\ text.breaks \ t.breaks \subseteq fixers}

\* Variant: that it is still Python is enough.
ValidRewrite_Parses(original, rewritten) == rewritten.kind = "python"

\* _validate_rewrite: what the source means is what it meant.
ValidRewrite(original, rewritten) == rewritten.means = original.means

PutAside(f) == style' = [style EXCEPT !.left = @ \ {f}] /\ UNCHANGED styleVerdict

ReadForFix(f) ==
    /\ Reading("fix", f)
    /\ LET text == ReadSource(f)
       IN  IF sources[f] = NoSource THEN EndStyle(2, "read")
           ELSE IF text.kind # "python" \/ Fixers(text) = {} THEN PutAside(f)
           ELSE \/ EndStyle(2, "fatal")   \* a round left no Python, or five were not enough
                \/ \E rewritten \in FixOneFile(text, Fixers(text)) :
                      IF rewritten = text THEN PutAside(f)
                      ELSE IF ValidRewrite(text, rewritten)
                      THEN /\ style' = [style EXCEPT !.left = @ \ {f},
                                                     !.read = With(@, f, rewritten)]
                           /\ UNCHANGED styleVerdict
                      ELSE EndStyle(2, "fatal")
    /\ UNCHANGED <<sources, linked, authored, overtaken, styleEdits>>

\* Too many files in one run: none is written.
AllRead ==
    /\ style # NoStyle /\ style.cmd = "fix" /\ style.step = "read" /\ style.left = {}
    /\ IF style.flag = "none" /\ Cardinality(DOMAIN style.read) > MAX_FIX_FILES
       THEN EndStyle(2, "limit")
       ELSE /\ style' = [style EXCEPT
                  !.step = "write",
                  !.left = IF style.flag = "dry-run" THEN {} ELSE DOMAIN style.read]
            /\ UNCHANGED styleVerdict
    /\ UNCHANGED <<sources, linked, authored, overtaken, styleEdits>>

\* _write_refusal_reason: a link, or a path through one, is not written.
ApproveWrite(f) ==
    /\ style # NoStyle /\ style.step = "write" /\ f \in style.left
    /\ IF sources[f] = ALink THEN PutAside(f)
       ELSE /\ style' = [style EXCEPT !.step = "approved", !.target = f]
            /\ UNCHANGED styleVerdict
    /\ UNCHANGED <<sources, linked, authored, overtaken, styleEdits>>

\* Written by the name, whatever is there by now.
Overwrite(f, text) ==
    IF sources[f] = ALink THEN linked' = text /\ UNCHANGED sources
    ELSE sources' = [sources EXCEPT ![f] = text] /\ UNCHANGED linked

\* _write_source empties the file first: it may fail before that, or after, or be killed.
WriteSource ==
    /\ style # NoStyle /\ style.step = "approved"
    /\ LET f == style.target
       IN  \/ /\ Overwrite(f, style.read[f])
              /\ style' = [style EXCEPT !.step = "write", !.left = @ \ {f}, !.wrote = @ \cup {f}]
              /\ UNCHANGED styleVerdict
           \/ EndStyle(2, "write") /\ UNCHANGED <<sources, linked>>
           \/ EndTearing(2, "write", {f}) /\ Overwrite(f, TornText)
    /\ UNCHANGED <<authored, overtaken, styleEdits>>

\* The closing report reads every file again, and ends 2 when one is gone.
Refresh ==
    /\ style # NoStyle /\ style.step = "write" /\ style.left = {}
    /\ EndStyle(IF \E f \in style.files : sources[f] = NoSource THEN 2 ELSE 0, "fixed")
    /\ UNCHANGED <<sources, linked, authored, overtaken, styleEdits>>

StyleKilled ==
    /\ style # NoStyle
    /\ EndStyle(2, "killed")
    /\ UNCHANGED <<sources, linked, authored, overtaken, styleEdits>>

\* A developer writes, deletes or replaces a file while the command runs.
EditSource(f, t) ==
    /\ style # NoStyle /\ styleEdits < MaxStyleEdits /\ t # sources[f]
    /\ styleEdits' = styleEdits + 1
    /\ sources' = [sources EXCEPT ![f] = t]
    /\ authored' = IF IsText(t) THEN [authored EXCEPT ![f] = t.means] ELSE authored
    /\ overtaken' = IF style.cmd = "fix" /\ f \in DOMAIN style.read \ style.wrote
                    THEN overtaken \cup {f} ELSE overtaken
    /\ UNCHANGED <<linked, style, styleVerdict>>

PyStyleInit ==
    /\ sources \in [StyleFiles -> StyleTexts]
    /\ linked = Outside
    /\ authored = [f \in StyleFiles |-> sources[f].means]
    /\ style = NoStyle /\ styleVerdict = Unstyled
    /\ overtaken = {} /\ styleEdits = 0

ConfigPlaces == [{"explicit", "standalone", "pyproject"} -> StyleConfigs \cup {NoConfig, BadConfig}]

PyStyleNext ==
    \/ /\ style = NoStyle /\ styleVerdict = Unstyled
       /\ \E at \in ConfigPlaces, use \in {"none", "explicit", "found"},
             select \in {{}, StyleRules, Fixable, {UnknownRule}}, ignore \in {{}, Fixable},
             found \in BOOLEAN :
             \/ \E flag \in {"none", "warn-only"} :
                   StartStyle("check", at, use, select, ignore, flag, found)
             \/ \E flag \in {"none", "dry-run", "allow-many"} :
                   StartStyle("fix", at, use, select, ignore, flag, found)
    \/ \E f \in StyleFiles : ReadForCheck(f) \/ ReadForFix(f) \/ ApproveWrite(f)
    \/ EndCheck \/ AllRead \/ WriteSource \/ Refresh \/ StyleKilled
    \/ \E f \in StyleFiles, t \in StyleTexts \cup {NoSource, ALink} : EditSource(f, t)

PyStyleSpec == PyStyleInit /\ [][PyStyleNext]_styleVars

(* fix changes the layout of a file and nothing else: what each file means  *)
(* is what its developer last wrote, and a file outside of the scanned      *)
(* directory is as it was, whatever the fixers do and wherever the command  *)
(* is killed, but for the one file whose writing is cut, and unless someone *)
(* changed the very file between its reading and its writing.  A run that   *)
(* is refused, by a fixer that fails or by the number of the files, has     *)
(* written nothing, and one that was not allowed to has written no more     *)
(* files than the limit.                                                    *)
FixKeepsMeaning ==
    /\ \A f \in StyleFiles \ (overtaken \cup styleVerdict.torn) :
          IsText(sources[f]) => sources[f].means = authored[f]
    /\ linked = Outside \/ overtaken # {}
    /\ styleVerdict.why \in {"usage", "fatal", "limit", "read"} => styleVerdict.wrote = {}
    /\ style # NoStyle /\ style.flag = "none" => Cardinality(style.wrote) <= MAX_FIX_FILES
    /\ style # NoStyle /\ style.flag = "dry-run" => style.wrote = {}

-----------------------------------------------------------------------------
(* acyclic-imports (py_style_graph.py)                                      *)

CONSTANTS
    StyleModules,    \* the modules scanned, each the sequence of the parts of its name
    ImportLines,     \* the import statements that occur in them
    MaxImportLines   \* bound: import statements of a module

\* import a.b; from a.b import c; from ..b import c, which has a level of 2.
ASSUME ImportsAssumption ==
    /\ StyleModules \subseteq Seq(STRING) /\ <<>> \notin StyleModules
    /\ IsFiniteSet(StyleModules)
    /\ \A l \in ImportLines : /\ l.level \in Nat /\ l.module \in Seq(STRING)
                             /\ l.names \subseteq STRING /\ l.from \in BOOLEAN
    /\ MaxImportLines \in Nat

VARIABLES
    importLines,  \* the statements of each module
    visited,      \* the state of each: 0, 1 on the path, 2 done
    importPath,   \* path_stack
    targetsLeft,  \* what visit has still to look at
    cyclesFound   \* the cycles reported

importVars == <<importLines, visited, importPath, targetsLeft, cyclesFound>>

\* A package counts for its prefixes too; a script at the top has no package.
Candidates(dotted) == {SubSeq(dotted, 1, n) : n \in 1..Len(dotted)}
DropParts(name, n) == SubSeq(name, 1, IF n > Len(name) THEN 0 ELSE Len(name) - n)

\* The names of "from a import b" may be modules, or not: both are candidates.
ImportTargets(name, line) ==
    LET base == IF line.level = 0 THEN line.module ELSE DropParts(name, line.level) \o line.module
        named == IF line.from /\ (line.level = 0 \/ line.module = <<>>)
                 THEN UNION {Candidates(Append(base, n)) : n \in line.names \ {"*"}} ELSE {}
    IN  Candidates(base) \cup named

\* Two files of one name are one node; what is not scanned is no target.
Adjacent(name) ==
    ((UNION {ImportTargets(name, line) : line \in importLines[name]}) \cap StyleModules) \ {name}

VisitModule(name) ==
    /\ visited[name] = 0
    /\ visited' = [visited EXCEPT ![name] = 1]
    /\ importPath' = Append(importPath, name)
    /\ targetsLeft' = [targetsLeft EXCEPT ![name] = Adjacent(name)]
    /\ UNCHANGED <<importLines, cyclesFound>>

VisitRoot(name) == importPath = <<>> /\ VisitModule(name)

\* A cycle is its modules; the code tells two orders of the same modules apart.
CycleFrom(target) == {importPath[i] : i \in {j \in DOMAIN importPath :
                        \E k \in 1..j : importPath[k] = target}}

LookAt(target) ==
    /\ importPath # <<>> /\ target \in targetsLeft[Last(importPath)]
    /\ \/ visited[target] = 0 /\ VisitModule(target)
       \/ /\ visited[target] # 0
          /\ targetsLeft' = [targetsLeft EXCEPT ![Last(importPath)] = @ \ {target}]
          /\ cyclesFound' = IF visited[target] = 1 THEN cyclesFound \cup {CycleFrom(target)}
                            ELSE cyclesFound
          /\ UNCHANGED <<importLines, visited, importPath>>

LeaveModule ==
    /\ importPath # <<>> /\ targetsLeft[Last(importPath)] = {}
    /\ visited' = [visited EXCEPT ![Last(importPath)] = 2]
    /\ importPath' = Front(importPath)
    /\ UNCHANGED <<importLines, targetsLeft, cyclesFound>>

ImportsInit ==
    /\ importLines \in [StyleModules ->
                          {lines \in SUBSET ImportLines : Cardinality(lines) <= MaxImportLines}]
    /\ visited = [m \in StyleModules |-> 0] /\ importPath = <<>>
    /\ targetsLeft = [m \in StyleModules |-> {}] /\ cyclesFound = {}

ImportsNext ==
    \/ \E m \in StyleModules : VisitRoot(m) \/ LookAt(m)
    \/ LeaveModule

ImportsSpec == ImportsInit /\ [][ImportsNext]_importVars

ImportsTypeOK ==
    /\ visited \in [StyleModules -> 0..2] /\ importPath \in Seq(StyleModules)
    /\ targetsLeft \in [StyleModules -> SUBSET StyleModules]
    /\ cyclesFound \subseteq SUBSET StyleModules

\* A graph has no cycle when its nodes can be numbered so that every edge goes down.
Acyclic_ == \E rank \in [StyleModules -> 1..Cardinality(StyleModules)] :
                \A m \in StyleModules : \A n \in Adjacent(m) : rank[n] < rank[m]

(* The search of check_import_cycles, which visits each module once and in  *)
(* the order of its imports, reports a cycle if and only if there is one,   *)
(* and only such that are there; not every one of them, whatever the rule's *)
(* description says (see the README).                                       *)
CyclesFoundIfAny ==
    /\ importPath = <<>> /\ (\A m \in StyleModules : visited[m] = 2)
          => (cyclesFound = {} <=> Acyclic_)
    /\ \A cycle \in cyclesFound : \A m \in cycle : Adjacent(m) \cap cycle # {}
=============================================================================
