------------------------------ MODULE MCFilters ------------------------------
(* The action filters in one instance for TLC.  They share no state, so that *)
(* a behaviour exercises one of them, the subject, and leaves the others in  *)
(* one of their initial states.                                              *)
EXTENDS MCMvcTransaction, MCTempDataFilters, MCRescue

VARIABLE subject

filterVars == <<txVars, vars, rescueVars, subject>>

\* Where the filters that are not exercised rest.
TempDataRests ==
    /\ site = {{"model"}, {}} /\ filters = {}
    /\ open = Windows /\ window = CHOOSE w \in Windows : TRUE
RescueRests ==
    /\ setting = CHOOSE s \in MCSettings : TRUE
    /\ \A r \in Rescued : thrown[r] = Sql /\ ~ajax[r]

FiltersInit ==
    /\ subject \in {"transaction", "tempData", "rescue"}
    /\ TxInit /\ Init /\ RescueInit
    /\ subject # "tempData" => TempDataRests
    /\ subject # "rescue" => RescueRests

FiltersNext ==
    /\ UNCHANGED subject
    /\ \/ subject = "transaction" /\ TxNext /\ UNCHANGED <<vars, rescueVars>>
       \/ subject = "tempData" /\ Next /\ UNCHANGED <<txVars, rescueVars>>
       \/ subject = "rescue" /\ RescueNext /\ UNCHANGED <<txVars, vars>>

FiltersSpec == FiltersInit /\ [][FiltersNext]_filterVars
=============================================================================
