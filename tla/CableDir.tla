------------------------------ MODULE CableDir ------------------------------
(***************************************************************************)
(* The Television cable directory, internal/tv: one TOML file per channel, *)
(* shared by the presets (`tuner tv sync`, `tuner channel`) and by the     *)
(* discovered sources that WatchDiscovered writes while tuner serves.      *)
(*                                                                         *)
(* Registry events reach WatchDiscovered one at a time, so one event with  *)
(* all its file work is one step.  A channel name is a sequence of         *)
(* characters, because the file name is computed from them; the content of *)
(* a file is what tells two of them apart: whose channel it is and where   *)
(* its command points.                                                     *)
(***************************************************************************)
EXTENDS Naturals, Sequences, FiniteSets, FiniteSetsExt

CONSTANTS
  Names,      \* instance names, sequences of characters
  Presets,    \* names of the built-in presets
  SafeChars,  \* the characters [A-Za-z0-9_] in use, without '-'
  Addresses,  \* host:port addresses
  None        \* no endpoint / no file

ASSUME NoneNotAddress == None \notin Addresses

VARIABLES
  live,    \* where each instance is, as the events so far tell, or None
  files,   \* the content of each file, or None
  known,   \* history: instances this process has had an event about
  failed   \* history: instances whose last write or removal failed

cableVars == <<live, files, known, failed>>

-----------------------------------------------------------------------------
(* ChannelFile folds every other character to '-' and trims the ends; the   *)
(* "ocd-" prefix and ".toml" suffix are left out.                           *)
Fold(name) == [k \in 1 .. Len(name) |-> IF name[k] \in SafeChars THEN name[k] ELSE "-"]

Trim(s) == LET keep == {k \in 1 .. Len(s) : s[k] # "-"}
           IN IF keep = {} THEN <<>> ELSE SubSeq(s, Min(keep), Max(keep))

ChannelFile(name) == LET safe == Trim(Fold(name))
                     IN IF safe = <<>> THEN <<"channel">> ELSE safe

Files == {ChannelFile(n) : n \in Names \cup Presets}

(* What GenerateTOML writes for a preset and for a discovered source, and   *)
(* what os.WriteFile leaves when it fails after truncating the file.        *)
PresetTOML(p)        == [kind |-> "preset", name |-> p]
DiscoveredTOML(n, e) == [kind |-> "discovered", name |-> n, ep |-> e]
Truncated            == [kind |-> "truncated"]

ASSUME NoneNotTOML == \A n \in Names, e \in Addresses : None # DiscoveredTOML(n, e)

Contents == {PresetTOML(p) : p \in Presets}
            \cup {DiscoveredTOML(n, e) : n \in Names, e \in Addresses}
            \cup {Truncated, None}

CableInit ==
  /\ live   = [n \in Names |-> None]
  /\ files  = [f \in Files |-> None]
  /\ known  = {}
  /\ failed = {}

-----------------------------------------------------------------------------
(* WriteChannel: afterwards the file has the content; a file that has it    *)
(* already is left alone, which comes to the same.                          *)
WriteChannel(name, toml) == files' = [files EXCEPT ![ChannelFile(name)] = toml]

(* MUTANT of RemoveChannel: the file is looked for under the unfolded name.  *)
RemoveUnfolded(name) ==
  files' = IF ChannelFile(name) = name THEN [files EXCEPT ![name] = None] ELSE files

(* WriteChannel when the directory cannot be made or the write fails. *)
WriteFails(name) ==
  \E left \in {files[ChannelFile(name)], Truncated} :
    files' = [files EXCEPT ![ChannelFile(name)] = left]

(* RemoveChannel: afterwards there is no such file. *)
RemoveChannel(name) == files' = [files EXCEPT ![ChannelFile(name)] = None]

(* MUTANT of Announced: a file that exists is taken to be up to date. *)
AnnouncedKeepsFile(n, e) ==
  /\ live'  = [live EXCEPT ![n] = e]
  /\ known' = known \cup {n}
  /\ IF n \in Presets \/ files[ChannelFile(n)] # None
     THEN UNCHANGED <<files, failed>>
     ELSE WriteChannel(n, DiscoveredTOML(n, e)) /\ failed' = failed \ {n}

(* WatchDiscovered, an Added or Updated event: an instance with the name of *)
(* a preset is skipped, any other gets its file.                            *)
Announced(n, e) ==
  /\ live'  = [live EXCEPT ![n] = e]
  /\ known' = known \cup {n}
  /\ \/ n \in Presets /\ UNCHANGED <<files, failed>>
     \/ /\ n \notin Presets
        /\ WriteChannel(n, DiscoveredTOML(n, e))
        /\ failed' = failed \ {n}
     \/ /\ n \notin Presets
        /\ WriteFails(n)
        /\ failed' = failed \cup {n}

(* WatchDiscovered, a Retired event: the file of that name goes, or stays   *)
(* when it cannot be removed.  Events of overlapping changes arrive in any  *)
(* order (Registry), so the source may have been unknown.                   *)
Retired(n) ==
  /\ live'  = [live EXCEPT ![n] = None]
  /\ known' = known \cup {n}
  /\ \/ RemoveChannel(n) /\ failed' = failed \ {n}
     \/ /\ files[ChannelFile(n)] # None
        /\ UNCHANGED files
        /\ failed' = failed \cup {n}

(* WriteAllPresets, one preset of it, or `tuner channel <preset>`. *)
WritePreset(p) ==
  /\ WriteChannel(p, PresetTOML(p))
  /\ UNCHANGED <<live, known, failed>>

(* tuner stops, however it stops, and starts again: the registry is empty   *)
(* and the directory is as it was.                                          *)
Restart ==
  /\ live'   = [n \in Names |-> None]
  /\ known'  = {}
  /\ failed' = {}
  /\ UNCHANGED files

CableNext ==
  \/ \E n \in Names : Retired(n) \/ \E e \in Addresses : Announced(n, e)
  \/ \E p \in Presets : WritePreset(p)
  \/ Restart

CableSpec == CableInit /\ [][CableNext]_cableVars

-----------------------------------------------------------------------------
(* The type invariant: every file was written by this package. *)
TypeOK ==
  /\ live \in [Names -> Addresses \cup {None}]
  /\ files \in [Files -> Contents]
  /\ known \subseteq Names
  /\ failed \subseteq known

(* No other channel's name is folded to the file of n. *)
OwnsFile(n) ==
  \A m \in Names \cup Presets : ChannelFile(m) = ChannelFile(n) => m = n

(* "a new instance adds one file and never rewrites the others; a departing *)
(* one takes its file with it" (README.md), for an instance that has its    *)
(* file to itself and whose last file operation succeeded: since its first  *)
(* event in this process the file is there exactly while the source is, and *)
(* points where the source is, whatever a previous process left behind.     *)
FileFollowsSource ==
  \A n \in known \ (failed \cup Presets) :
    OwnsFile(n) =>
      files[ChannelFile(n)] = IF live[n] = None THEN None ELSE DiscoveredTOML(n, live[n])

(* Whatever names share a file, it never points to a source this process     *)
(* knows to have left or moved: the last one to write it owns it, and the    *)
(* first one to leave takes it, unless that failed (ChannelFile,             *)
(* WatchDiscovered).                                                         *)
NoFileOutlivesSource ==
  \A f \in Files : \A n \in known \ failed, e \in Addresses :
    files[f] = DiscoveredTOML(n, e) => f = ChannelFile(n) /\ live[n] = e

(* "presets and the other discovered channels are left exactly as they      *)
(* were" (WatchDiscovered's doc comment): no event about an instance takes  *)
(* the file of a preset away.                                               *)
PresetNeverRemoved ==
  [][\A p \in Presets :
       files[ChannelFile(p)] = PresetTOML(p) => files'[ChannelFile(p)] # None]_cableVars
=============================================================================
