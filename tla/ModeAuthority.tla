--------------------------- MODULE ModeAuthority ---------------------------
(***************************************************************************)
(* What RuntimeEngine promises the rest of PiHub about its mode.           *)
(*                                                                         *)
(* There is one mode and one marker of the last flow.  At most one flow    *)
(* works on the room at a time; while it does, nothing else moves the      *)
(* mode.  A flow that succeeds moves the mode and the marker together, one *)
(* that fails moves neither.  `kept' is what a restart may find: whole     *)
(* choices that were made before, never a mixture of two of them.  Only an *)
(* end under way, at which two writers of the file may meet, can leave     *)
(* nothing to be found.                                                    *)
(***************************************************************************)
CONSTANTS
    Modes,      \* the modes the engine may be in
    Available,  \* those the keymap has bindings for
    Nobody,     \* no last flow: nothing remembered
    Fallback    \* the mode of a system that remembers nothing

VARIABLES
    on,         \* the engine exists
    ending,     \* it is being stopped
    mode,
    last,       \* the last flow's mode, or Nobody
    busy,       \* a flow is working on the room
    kept        \* the <<mode, last>> pairs a restart may find

avars == <<on, ending, mode, last, busy, kept>>

Pairs == Modes \X (Modes \cup {Nobody})
Nothing == <<Nobody, Nobody>>

\* The pair a restart makes of the pair it finds: a mode kept without a
\* marker stands for the flow of that name.
Restored(p) == <<p[1], IF p[2] = Nobody THEN p[1] ELSE p[2]>>

AInit ==
    /\ on = FALSE
    /\ ending = FALSE
    /\ mode = Fallback
    /\ last = Nobody
    /\ busy = FALSE
    /\ kept \in {{p} : p \in Pairs \cup {Nothing}}

Boot ==
    /\ ~on
    /\ on' = TRUE
    /\ \E p \in kept :
        LET found == IF p[1] \in Available THEN Restored(p) ELSE <<Fallback, Nobody>>
        IN  mode' = found[1] /\ last' = found[2]
    /\ UNCHANGED <<ending, busy, kept>>

Begin == on /\ ~busy /\ busy' = TRUE /\ UNCHANGED <<on, ending, mode, last, kept>>

EndBegins == on /\ ~ending /\ ending' = TRUE /\ UNCHANGED <<on, mode, last, busy, kept>>

\* A restart may now find this choice; it finds that or an older one, or
\* nothing when the writers meet.
Keeps(p) == kept' # {} /\ kept' \subseteq kept \cup {p} \cup (IF ending THEN {Nothing} ELSE {})

Succeed ==
    /\ on /\ busy
    /\ busy' = FALSE
    /\ \E m \in Modes :
        /\ mode' = m
        /\ last' = m
        /\ Keeps(<<m, m>>)
    /\ UNCHANGED <<on, ending>>

Fail == on /\ busy /\ busy' = FALSE /\ UNCHANGED <<on, ending, mode, last, kept>>

\* Somebody picks a mode, or the engine corrects itself to the room.
Choose ==
    /\ on /\ ~busy /\ ~ending
    /\ \E m \in Modes :
        /\ mode' = m
        /\ last' \in {last, m}
        /\ Keeps(<<m, last'>>)
    /\ UNCHANGED <<on, ending, busy>>

\* Older choices are forgotten.
Forget ==
    /\ kept' \subseteq kept
    /\ kept' # {}
    /\ UNCHANGED <<on, ending, mode, last, busy>>

\* Two writers meet in the file.
Meet ==
    /\ on /\ ending
    /\ kept' = kept \cup {Nothing}
    /\ UNCHANGED <<on, ending, mode, last, busy>>

Off ==
    /\ on
    /\ on' = FALSE
    /\ ending' = FALSE
    /\ mode' = Fallback
    /\ last' = Nobody
    /\ busy' = FALSE
    /\ kept' \subseteq kept
    /\ kept' # {}

ANext == Boot \/ Begin \/ EndBegins \/ Succeed \/ Fail \/ Choose \/ Forget \/ Meet \/ Off

ASpec == AInit /\ [][ANext]_avars
=============================================================================
