------------------------------ MODULE HarmonyPage ------------------------------
(***************************************************************************)
(* A page of the HarmonyOS renderer with components of one class: images, a  *)
(* video or audio player, or an input.  The classes share the main looper    *)
(* and nothing else, so that one of them at a time is enough.                *)
(***************************************************************************)
EXTENDS ImageLoading, MediaPlayer, InputBinding

VARIABLE page   \* the class of the components on the page

pageVars == <<page, vars, mediaVars, inputVars>>

\* The components of the other classes have one initial state, and keep it.
PageInit ==
    /\ page \in {"images", "media", "input"}
    /\ Init /\ MediaInit /\ InputInit
    /\ page # "media" => ~media.autoPlay /\ media.kind = CHOOSE kind \in MediaKinds : TRUE
    /\ page # "input" => ~core.required /\ core.value = {} /\ field.kind = CHOOSE kind \in InputKinds : TRUE

PageNext ==
    /\ \/ page = "images" /\ Next /\ UNCHANGED <<mediaVars, inputVars>>
       \/ page = "media" /\ MediaNext /\ UNCHANGED <<vars, inputVars>>
       \/ page = "input" /\ InputNext /\ UNCHANGED <<vars, mediaVars>>
    /\ UNCHANGED page

PageSpec == PageInit /\ [][PageNext]_pageVars /\ Fairness /\ MediaFairness
=============================================================================
