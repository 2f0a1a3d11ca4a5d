--------------------------------- MODULE Office ---------------------------------
(***************************************************************************)
(* What the modules of one office have in common: the HTTP requests that   *)
(* the server handles.  A handler runs from one data base statement to the *)
(* next, and between two of its statements any other request may run.      *)
(***************************************************************************)
EXTENDS Integers

CONSTANTS
    Requests,  \* the requests that may be in progress together
    MaxCuts,   \* bound of the models: how often a request is cut off between two commits
    None

ASSUME OfficeAssumption == MaxCuts \in Nat

=============================================================================
