--------------------------------- MODULE Host ---------------------------------
(***************************************************************************)
(* The program on its host: the configuration file, which `init` writes in *)
(* place (src/src/config.rs), the start of the server, which reads it      *)
(* (src/src/main.rs) and picks a backend (src/src/firewall/mod.rs), and    *)
(* the backend that lives in the server's memory alone, the placeholder    *)
(* for Linux (src/src/firewall/linux.rs).                                  *)
(*                                                                         *)
(* Several processes share the file: init, the server and the user's       *)
(* editor.  A configuration is its key and its platform; the other fields  *)
(* are read and written with them.  The client loads its configuration as  *)
(* the server does; `status` changes nothing, and on Linux counts the      *)
(* rules of a new, empty memory.                                           *)
(*                                                                         *)
(* A definition with _Bug in its name is the one after it with a plausible *)
(* mistake; it shows that a property can tell the difference.              *)
(***************************************************************************)
EXTENDS Naturals, RuleMemory

CONSTANTS Keys, DefaultKey,   \* shared keys, and the one in Config::default
          Platforms,          \* what a user may write for a platform
          Names,              \* rule names
          Srcs,               \* what a rule says
          Absent, Torn,       \* no file, and one that does not parse
          None,               \* stands for something not there
          MaxEdits,           \* bound on the edits of the file by users
          MaxDeaths           \* bound on processes that die

Configs == [key : Keys, platform : Platforms]
Files == Configs \cup {Absent, Torn}
Entries == [name : Names, src : Srcs, state : {"on", "off"}]

ASSUME HostAssumption ==
    /\ DefaultKey \in Keys
    /\ "openwrt" \in Platforms
    /\ Absent \notin Configs /\ Torn \notin Configs /\ Absent # Torn
    /\ None \notin Configs \cup Platforms \cup Entries
    /\ MaxEdits \in Nat /\ MaxDeaths \in Nat

VARIABLES file,       \* config.json
          writing,    \* the platform init is about to write, or None
          phase,      \* the server: "down", "retry" or "up"
          override,   \* its --platform option, or None
          config,     \* the configuration it runs with, or None
          rules,      \* the rules in the Linux backend's memory
          seen,       \* history: the files there were while it started
          told,       \* history: told[n], what this run's calls made of rule n
          edits, deaths

vars == <<file, writing, phase, override, config, rules, seen, told, edits, deaths>>
disk == <<file, writing, edits>>
server == <<phase, override, config, rules, told>>

Default == [key |-> DefaultKey, platform |-> "openwrt"]

Init ==
    /\ file \in Files
    /\ writing = None
    /\ phase = "down" /\ override = None /\ config = None
    /\ rules = {} /\ seen = {} /\ told = [n \in Names |-> None]
    /\ edits = 0 /\ deaths = 0

\* The file changes under the eyes of a server that starts.
FileBecomes(f) ==
    /\ file' = f
    /\ seen' = IF phase = "retry" THEN seen \cup {f} ELSE seen

Death ==
    /\ deaths < MaxDeaths
    /\ deaths' = deaths + 1
------------------------------------------------------------------------------
\* init_config: fs::write truncates the file, whatever there was.
InitTruncates ==
    /\ writing = None
    /\ writing' \in Platforms
    /\ FileBecomes(Torn)
    /\ UNCHANGED <<server, edits, deaths>>

\* init_config: fs::write has written the default configuration.
InitWrites ==
    /\ writing # None
    /\ FileBecomes([Default EXCEPT !.platform = writing])
    /\ writing' = None
    /\ UNCHANGED <<server, edits, deaths>>

\* init dies in the middle, or the disk is full.
InitDies ==
    /\ Death
    /\ writing # None
    /\ writing' = None
    /\ UNCHANGED <<file, server, seen, edits>>

\* The user writes the file, breaks it or removes it.
Edit ==
    /\ edits < MaxEdits
    /\ edits' = edits + 1
    /\ \E f \in Files : FileBecomes(f)
    /\ UNCHANGED <<writing, server, deaths>>

\* Bug: a file that does not parse counts as none, as it does for `status`.
Loaded_Bug(f) == IF f \in {Absent, Torn} THEN Default ELSE f

\* load_or_default
Loaded(f) == IF f = Torn THEN None ELSE IF f = Absent THEN Default ELSE f

CanLoad(f) == Loaded(f) # None

\* The server comes up with the configuration, its own option applied.
Up(o, f) ==
    /\ phase' = "up"
    /\ config' = IF o = None THEN Loaded(f) ELSE [Loaded(f) EXCEPT !.platform = o]
    /\ rules' = {}
    /\ told' = [n \in Names |-> None]

\* main: the configuration is loaded to see whether to log in detail, and used.
Start ==
    /\ phase = "down"
    /\ override' \in Platforms \cup {None}
    /\ seen' = {file}
    /\ \/ CanLoad(file) /\ Up(override', file)
       \/ ~CanLoad(file) /\ phase' = "retry" /\ UNCHANGED <<config, rules, told>>
    /\ UNCHANGED <<disk, deaths>>

\* Bug: the failure of the second attempt is ignored too.
Retry_Bug ==
    /\ phase = "retry"
    /\ \/ CanLoad(file) /\ Up(override, file)
       \/ ~CanLoad(file) /\ phase' = "up" /\ UNCHANGED <<config, rules, told>>
    /\ UNCHANGED <<disk, override, seen, deaths>>

\* main: the server that could not load it tries once more, or exits.
Retry ==
    /\ phase = "retry"
    /\ \/ CanLoad(file) /\ Up(override, file)
       \/ ~CanLoad(file) /\ phase' = "down" /\ UNCHANGED <<config, rules, told>>
    /\ UNCHANGED <<disk, override, seen, deaths>>

\* The server's process dies, and its memory with it.
ServerDies ==
    /\ Death
    /\ phase # "down"
    /\ phase' = "down"
    /\ config' = None
    /\ rules' = {}
    /\ UNCHANGED <<disk, override, seen, told>>
------------------------------------------------------------------------------
\* get_firewall_manager; "Linux" stands for other ways to write it.
Backend(platform) == IF platform \in {"linux", "Linux"} THEN "linux"
                     ELSE IF platform = "windows" THEN "windows" ELSE "openwrt"

OnLinux == phase = "up" /\ Backend(config.platform) = "linux"

Called == OnLinux /\ UNCHANGED <<disk, phase, override, config, seen, deaths>>

\* create_rule
Create(n, s) ==
    LET entry == [name |-> n, src |-> s, state |-> "on"] IN
    /\ Called
    /\ rules' = Stored(rules, entry)
    /\ told' = [told EXCEPT ![n] = entry]

\* enable_rule and disable_rule of a rule there is
Switch(n, state) ==
    /\ Called
    /\ Has(rules, n)
    /\ rules' = Switched(rules, n, state)
    /\ told' = [told EXCEPT ![n].state = state]

\* delete_rule of a rule there is; without one the calls only return an error.
Delete(n) ==
    /\ Called
    /\ Has(rules, n)
    /\ rules' = Without(rules, n)
    /\ told' = [told EXCEPT ![n] = None]

Next ==
    \/ InitTruncates \/ InitWrites \/ InitDies \/ Edit
    \/ Start \/ Retry \/ ServerDies
    \/ \E n \in Names :
          \/ \E s \in Srcs : Create(n, s)
          \/ \E state \in {"on", "off"} : Switch(n, state)
          \/ Delete(n)

Spec == Init /\ [][Next]_vars
------------------------------------------------------------------------------
TypeOK ==
    /\ file \in Files
    /\ writing \in Platforms \cup {None}
    /\ phase \in {"down", "retry", "up"}
    /\ config \in Configs \cup {None}
    /\ config # None <=> phase = "up"
    /\ override \in Platforms \cup {None}
    /\ rules \subseteq Entries
    /\ seen \subseteq Files
    /\ told \in [Names -> Entries \cup {None}]

(***************************************************************************)
(* A server runs with a configuration that was complete in the file while  *)
(* it started, and with the key everybody knows only if that was there in  *)
(* full or there was no file: never because init, the user or a crash left *)
(* half a file, however the two reads and the writes interleave.           *)
(***************************************************************************)
KeyWasWritten ==
    phase = "up" =>
        \E f \in seen \ {Torn} :
            /\ config.key = IF f = Absent THEN DefaultKey ELSE f.key
            /\ override = None => Backend(config.platform) =
                  IF f = Absent THEN "openwrt" ELSE Backend(f.platform)

(***************************************************************************)
(* What the Linux backend lists is one rule per name, as the last call of  *)
(* this run that succeeded for that name left it, and no rule of an        *)
(* earlier run.                                                            *)
(***************************************************************************)
MemoryIsAsTold ==
    phase = "up" => rules = {told[n] : n \in Names} \ {None}
==============================================================================
