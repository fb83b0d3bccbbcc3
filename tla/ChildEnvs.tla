----------------------------- MODULE ChildEnvs -----------------------------
(***************************************************************************)
(* The environment a child process is given, by the two tools that make    *)
(* one.  devenv (env/devenv.py): a profile gives every service an address, *)
(* devenv.toml overrides some or adds profiles, and a command is run with a *)
(* variable per service, none of the caller's being overwritten.  netproxy *)
(* (core/netproxy.py): a cascade of places where the egress proxy may be   *)
(* named, the first usable one wins; the network changes between one       *)
(* detection and the next.                                                 *)
(***************************************************************************)
EXTENDS Naturals, FiniteSets, Functions, SequencesExt

CONSTANTS
    BuiltIn,       \* the profiles of PROFILE_PORTS
    NewProfiles,   \* those a devenv.toml adds
    ServiceOf,     \* [variables -> services]
    MaxEntries     \* bound: lines in devenv.toml

ASSUME DevenvAssumption == BuiltIn \cap NewProfiles = {} /\ MaxEntries \in Nat

Gateways == Range(ServiceOf)
Variables == DOMAIN ServiceOf
Profiles == BuiltIn \cup NewProfiles

\* What devenv.toml may say of a service: a port or host:port, or what is refused.
Values == {"port", "target", "refused"}

VARIABLES
    toml,         \* profile -> service -> value, for what the file overrides
    unknownSvc,   \* it names a service there is not
    callers,      \* the variables the caller has set
    devenv        \* the last run: how it ended, and the address behind each variable

devenvVars == <<toml, unknownSvc, callers, devenv>>

DevenvTypeOK ==
    /\ DOMAIN toml \subseteq Profiles
    /\ \A p \in DOMAIN toml : DOMAIN toml[p] \subseteq Gateways /\ Range(toml[p]) \subseteq Values
    /\ unknownSvc \in BOOLEAN
    /\ callers \subseteq Variables
    /\ devenv.exit \in {"none", "ran", "refused", "KeyError"}
    /\ devenv.env \in [Variables -> {"unset", "caller", "set", "default", "toml"}]

Overridden == {o \in Profiles \X Gateways : o[1] \in DOMAIN toml /\ o[2] \in DOMAIN toml[o[1]]}

OwnEntries(p) == IF p \in DOMAIN toml THEN toml[p] ELSE [x \in {} |-> x]

WithEntry(p, s, v) ==
    [x \in {s} \cup DOMAIN OwnEntries(p) |-> IF x = s THEN v ELSE OwnEntries(p)[x]]

EditToml ==
    /\ Cardinality(Overridden) < MaxEntries
    /\ \E p \in Profiles, s \in Gateways, v \in Values :
          /\ <<p, s>> \notin Overridden
          /\ toml' = [q \in {p} \cup DOMAIN toml |->
                         IF q = p THEN WithEntry(p, s, v) ELSE toml[q]]
    /\ UNCHANGED <<unknownSvc, callers, devenv>>

NameUnknownService ==
    /\ ~unknownSvc
    /\ unknownSvc' = TRUE
    /\ UNCHANGED <<toml, callers, devenv>>

CallerExports ==
    /\ \E v \in Variables \ callers : callers' = callers \cup {v}
    /\ UNCHANGED <<toml, unknownSvc, devenv>>

-----------------------------------------------------------------------------
\* load_profile_ports: overrides merge over the built-ins; a new profile has its own only.
PortsOf(p) ==
    LET own == OwnEntries(p)
    IN  [s \in DOMAIN own \cup (IF p \in BuiltIn THEN Gateways ELSE {}) |->
            IF s \in DOMAIN own THEN "toml" ELSE "default"]

Refused(p) ==
    \/ unknownSvc
    \/ \E q \in DOMAIN toml : "refused" \in Range(toml[q])
    \/ p \notin BuiltIn \cup DOMAIN toml

\* build_env reads every service of the profile; merge_env fills gaps only, --set first.
RunWith(p, extra) ==
    /\ devenv' =
         IF Refused(p) THEN [exit |-> "refused", env |-> [v \in Variables |-> "unset"]]
         ELSE IF DOMAIN PortsOf(p) # Gateways
         THEN [exit |-> "KeyError", env |-> [v \in Variables |-> "unset"]]
         ELSE [exit |-> "ran", env |-> [v \in Variables |-> IF v \in callers THEN "caller"
                                                           ELSE IF v \in extra THEN "set"
                                                           ELSE PortsOf(p)[ServiceOf[v]]]]
    /\ UNCHANGED <<toml, unknownSvc, callers>>

DevenvInit ==
    /\ toml = [x \in {} |-> x] /\ unknownSvc = FALSE /\ callers = {}
    /\ devenv = [exit |-> "none", env |-> [v \in Variables |-> "unset"]]

DevenvNext ==
    \/ EditToml \/ NameUnknownService \/ CallerExports
    \/ \E p \in Profiles, extra \in SUBSET Variables : RunWith(p, extra)

DevenvSpec == DevenvInit /\ [][DevenvNext]_devenvVars

-----------------------------------------------------------------------------
(* netproxy                                                                 *)

CONSTANTS
    EnvNames,    \* _ENV_ORDER and _TOOL_ENV, in their order
    Addresses    \* loopback, gateway and DNS guesses, in the order they are tried

ASSUME NetproxyAssumption == EnvNames \in Seq(STRING) /\ Addresses \in Seq(STRING)

Places == <<"explicit">> \o EnvNames \o <<"git">> \o Addresses \o <<"wpad">>

VARIABLES
    offers,      \* place -> what is there
    proxyFlag,   \* the command line and the environment say: detect, direct, or disabled
    detected,    \* the last detection: the place that won, or why there is none
    childEnv     \* the proxy variables of a child: cleared, or the place they are from

proxyVars == <<offers, proxyFlag, detected, childEnv>>

PlaceNames == Range(Places)

NetproxyTypeOK ==
    /\ offers \in [PlaceNames -> {"nothing", "malformed", "proxy"}]
    /\ proxyFlag \in {"detect", "none", "disabled"}
    /\ detected \in PlaceNames \cup {"not yet", "flag:none", "disabled", "direct"}
    /\ childEnv \in PlaceNames \cup {"inherited", "cleared"}

\* An address is reachable or not; text may be malformed, which counts as nothing.
Offer ==
    /\ \E place \in PlaceNames, is \in {"nothing", "malformed", "proxy"} :
          /\ place \in Range(Addresses) => is # "malformed"
          /\ is # offers[place]
          /\ offers' = [offers EXCEPT ![place] = is]
    /\ UNCHANGED <<proxyFlag, detected, childEnv>>

Flags ==
    /\ proxyFlag' \in {"detect", "none", "disabled"} \ {proxyFlag}
    /\ UNCHANGED <<offers, detected, childEnv>>

\* One place asked: what is malformed or out of reach is passed over.
IsProxy(place) == offers[place] = "proxy"

FirstProxy == SelectInSeq(Places, IsProxy)

\* detect: --no-proxy first, an explicit proxy next, the switch-off before the rest.
Detect ==
    /\ detected' = IF proxyFlag = "none" THEN "flag:none"
                   ELSE IF IsProxy("explicit") THEN "explicit"
                   ELSE IF proxyFlag = "disabled" THEN "disabled"
                   ELSE IF FirstProxy = 0 THEN "direct"
                   ELSE Places[FirstProxy]
    /\ UNCHANGED <<offers, proxyFlag, childEnv>>

\* child_env: every proxy variable is cleared, then set from the detection.
ChildEnv ==
    /\ detected # "not yet"
    /\ childEnv' = IF detected \in PlaceNames THEN detected ELSE "cleared"
    /\ UNCHANGED <<offers, proxyFlag, detected>>

NetproxyInit ==
    /\ offers = [place \in PlaceNames |-> "nothing"]
    /\ proxyFlag = "detect" /\ detected = "not yet" /\ childEnv = "inherited"

NetproxyNext == Offer \/ Flags \/ Detect \/ ChildEnv

NetproxySpec == NetproxyInit /\ [][NetproxyNext]_proxyVars
=============================================================================
