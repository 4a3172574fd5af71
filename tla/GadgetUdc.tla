------------------------------ MODULE GadgetUdc ------------------------------
(***************************************************************************)
(* What UsbGadget and FfsSession share: the UDC file of the ConfigFS       *)
(* gadget ($G/UDC) and the threads that run root commands on it.  Each     *)
(* runRoot() is one step; a fault is a command that fails although the     *)
(* configuration allows it.  The kernel is external: an empty UDC file     *)
(* cannot be unbound again (ENODEV), a bound one not bound (EBUSY), and    *)
(* removing the link of a function unbinds the gadget.                     *)
(***************************************************************************)
EXTENDS Naturals

CONSTANTS
    Threads,    \* threads of the app that start or stop a mode
    MaxFaults   \* bound: commands that fail

ASSUME FaultsAssumption == MaxFaults \in Nat

VARIABLES
    udc,     \* the gadget is bound to a controller ($G/UDC is not empty)
    faults,  \* faults so far
    doing,      \* place of each thread
    loc      \* its local variables

\* mode, kind: what the thread was asked for; orig: a UDC was bound before;
\* image: backing file; mounts: this start mounted FunctionFS; bad: a step of
\* a stop failed; hit: a fault occurred; ok: result.
NoLocals == [mode |-> "none", kind |-> "none", orig |-> FALSE, image |-> 0,
             mounts |-> FALSE, bad |-> FALSE, hit |-> FALSE, ok |-> FALSE]

\* t goes on at a place, without a fault or after one.
Works(t, place, l) ==
    /\ doing' = [doing EXCEPT ![t] = place]
    /\ loc' = [loc EXCEPT ![t] = l]
    /\ UNCHANGED faults

Fails(t, place, l) ==
    /\ faults < MaxFaults /\ faults' = faults + 1
    /\ doing' = [doing EXCEPT ![t] = place]
    /\ loc' = [loc EXCEPT ![t] = [l EXCEPT !.hit = TRUE]]

Bad(t) == [loc[t] EXCEPT !.bad = TRUE]
Returns(t, ok) == [loc[t] EXCEPT !.ok = ok]

\* The UDC file after the link of a function is removed, if there was one.
UdcWithout(link) == IF link THEN FALSE ELSE udc

\* printf '\n' > $G/UDC of a start: a failure ends the start.
Unbind(t, place, refused) ==
    \/ udc /\ udc' = FALSE /\ Works(t, place, loc[t])
    \/ ~udc /\ udc' = udc /\ Works(t, refused, loc[t])
    \/ udc' = udc /\ Fails(t, refused, loc[t])

\* printf '\n' > $G/UDC || true: only a failing su is noticed.
UnbindAnyway(t, place) ==
    \/ udc' = FALSE /\ Works(t, place, loc[t])
    \/ udc' = udc /\ (Fails(t, place, loc[t]) \/ Fails(t, place, Bad(t)))

\* echo $UDC > $G/UDC
Bind(t, place, refused) ==
    \/ ~udc /\ udc' = TRUE /\ Works(t, place, loc[t])
    \/ udc /\ udc' = udc /\ Works(t, refused, loc[t])
    \/ udc' = udc /\ Fails(t, refused, loc[t])

\* Mutant: the controller is left unbound.
Restore_Not(t, place, l) == udc' = udc /\ Works(t, place, loc[t])

\* Bind the UDC that was bound before, if any; l: the locals if that fails.
Restore(t, place, l) ==
    IF ~loc[t].orig THEN udc' = udc /\ Works(t, place, loc[t])
    ELSE \/ ~udc /\ udc' = TRUE /\ Works(t, place, loc[t])
         \/ udc /\ udc' = udc /\ Works(t, place, l)
         \/ udc' = udc /\ Fails(t, place, l)
=============================================================================
