----------------------------- MODULE HostMedia -----------------------------
(* The embedder behind Host.h, as far as the hosted lists use it: a library of   *)
(* tagged tracks, which a scan may change at any time, and a playlist, of which  *)
(* only the number of rows counts here, that the user may edit from elsewhere.   *)
(* External: only its accessors are in src/.                                     *)
EXTENDS Integers, Sequences, SequencesExt, FiniteSets

CONSTANTS
    Track,       \* the tracks there are
    Tag,         \* track -> field -> value
    MaxRows      \* bound: rows of the playlist

VARIABLES
    library,     \* the tracks that are indexed
    rowCount,    \* playlistRowCount
    current      \* its current row, from 0, or -1

hostVars == <<library, rowCount, current>>

ASSUME HostAssumption == MaxRows \in Nat

HostTypeOK ==
    /\ library \subseteq Track
    /\ rowCount \in 0 .. MaxRows
    /\ current \in -1 .. MaxRows - 1

HostInit ==
    /\ library \in SUBSET Track
    /\ rowCount = 0
    /\ current = -1

-----------------------------------------------------------------------------
(* The queries: eq is a set of [field, value] selections.                        *)
Matching(eq) == {t \in library : \A e \in eq : Tag[t][e.field] = e.value}
mlFilterValues(field, eq) == SetToSeq({Tag[t][field] : t \in Matching(eq)})
mlTracksQuery(eq) == SetToSeq(Matching(eq))

(* mlPlayTracks appends the view and, unless it only enqueues, starts at a row of *)
(* it.                                                                            *)
mlPlayTracks(view, row, enqueueOnly) ==
    /\ rowCount + Len(view) <= MaxRows
    /\ rowCount' = rowCount + Len(view)
    /\ current' = IF enqueueOnly THEN current ELSE rowCount + row
    /\ UNCHANGED library

playlistRow(row) ==
    /\ current' = row
    /\ UNCHANGED <<library, rowCount>>

-----------------------------------------------------------------------------
(* What happens to both without the lists' doing.                                *)
Rescan ==
    /\ library' \in SUBSET Track \ {library}
    /\ UNCHANGED <<rowCount, current>>

AddRow ==
    /\ rowCount < MaxRows
    /\ rowCount' = rowCount + 1
    /\ UNCHANGED <<library, current>>

RemoveRow ==
    /\ rowCount > 0
    /\ rowCount' = rowCount - 1
    /\ \E row \in 0 .. rowCount - 1 :
         current' = IF current >= row THEN current - 1 ELSE current
    /\ UNCHANGED library
=============================================================================
