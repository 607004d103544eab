----------------------------- MODULE ModeSelect -----------------------------
(***************************************************************************)
(* Mode selection (wana-drm/src/mode.rs): the mode a connector is driven   *)
(* at, chosen from the list it reports, in whatever order it reports it.   *)
(* A mode is [w, h, refresh, preferred]; its refresh rate is taken as      *)
(* given (refresh_mhz computes it from the timings).                       *)
(***************************************************************************)
EXTENDS Naturals, SequencesExt, FiniteSetsExt, Subsequences

CONSTANTS
  Lists,      \* the mode lists that connectors report
  NoMode      \* what `select` returns for an empty list

VARIABLES
  modes,      \* the list
  mode,       \* the selected mode
  done        \* whether the selection was made

vars == <<modes, mode, done>>

Area(m) == m.w * m.h
SameSize(m, size) == m.w = size.w /\ m.h = size.h

(* Iterator::max_by_key: the last of the elements no other is greater than. *)
LastMax(s, Less(_, _)) ==
  s[Max({i \in DOMAIN s : \A j \in DOMAIN s : ~ Less(s[i], s[j])})]

(* Fault: the flag decides and the rate only breaks ties. *)
PreferredFirst(a, b) ==
  \/ ~ a.preferred /\ b.preferred
  \/ a.preferred = b.preferred /\ a.refresh < b.refresh

(* The key (refresh_mhz, is_preferred), compared as a tuple. *)
Slower(a, b) ==
  \/ a.refresh < b.refresh
  \/ a.refresh = b.refresh /\ ~ a.preferred /\ b.preferred

Smaller(a, b) == Area(a) < Area(b)

(* Fault: without a preferred mode, the first of the list gives the size. *)
SizeOfFirst(s) ==
  LET preferred == Among(s, {m \in ToSet(s) : m.preferred})
  IN  IF preferred # <<>> THEN Head(preferred) ELSE Head(s)

(* select: the mode that gives the resolution. *)
Size(s) ==
  LET preferred == Among(s, {m \in ToSet(s) : m.preferred})
  IN  IF preferred # <<>> THEN Head(preferred) ELSE LastMax(s, Smaller)

(* select: the fastest mode of that resolution. *)
Select(s) ==
  IF s = <<>> THEN NoMode
  ELSE LastMax(Among(s, {m \in ToSet(s) : SameSize(m, Size(s))}), Slower)

Init ==
  /\ modes \in Lists
  /\ mode = NoMode
  /\ done = FALSE

Choose ==
  /\ ~ done
  /\ mode' = Select(modes)
  /\ done' = TRUE
  /\ UNCHANGED modes

Chosen == done /\ UNCHANGED vars

Next == Choose \/ Chosen

Spec == Init /\ [][Next]_vars

-----------------------------------------------------------------------------
Preferred == {m \in ToSet(modes) : m.preferred}

(* select: "the connector's preferred mode, and among modes with the       *)
(* preferred resolution the highest refresh rate", otherwise "the largest  *)
(* resolution, then the highest refresh rate".  A mode is chosen unless    *)
(* there is none.                                                          *)
DocumentedChoice ==
  done =>
    IF modes = <<>> THEN mode = NoMode
    ELSE /\ mode \in ToSet(modes)
         /\ \A m \in ToSet(modes) : SameSize(m, mode) => m.refresh <= mode.refresh
         /\ IF Preferred # {} THEN \E p \in Preferred : SameSize(p, mode)
            ELSE \A m \in ToSet(modes) : Area(m) <= Area(mode)

=============================================================================
