------------------------------ MODULE Analysis ------------------------------
(***************************************************************************)
(* The analysis of a scan, in parts that share no state: the analyzers and *)
(* their record, the two levels of the taint analysis of smali code, the   *)
(* filters that rank what was found, the broker that may ask a model for   *)
(* advice, and the evidence of an application (its extraction, the taint   *)
(* analysis of its sources, the review of an iOS archive).  Each behaviour *)
(* belongs to the part that which names; the others stay where they start. *)
(***************************************************************************)
EXTENDS SmaliFlow, RegisterFlow, StaticCoverage, ModelBroker, CandidateReview, Evidence

CONSTANTS
    Part            \* the parts that are analysed

VARIABLES
    which           \* the part whose turn it is

-----------------------------------------------------------------------------
\* The input of a part whose turn it is not.
Program1 == CHOOSE p \in Programs : TRUE
Method1 == CHOOSE b \in Bodies : TRUE
Setting1 == CHOOSE s \in Setting : TRUE
Package1 == CHOOSE p \in Directories : TRUE
Input1 == CHOOSE i \in Inputs : TRUE
Archive1 == CHOOSE a \in Archives : TRUE

AnalysisInit ==
    /\ which \in Part
    /\ IF which = "flow" THEN code \in Programs ELSE code = Program1
    /\ scInit /\ Init
    /\ \E b \in IF which = "registers" THEN Bodies ELSE {Method1} : Start(b)
    /\ crInit /\ (which = "review" \/ setting = Setting1)
    /\ mbInit
    /\ IF which = "source" THEN stInit ELSE stStart(Package1)
    /\ IF which = "extract" THEN exInit ELSE exStart(Input1)
    /\ IF which = "ios" THEN irInit ELSE irStart(Archive1)

Scan == which = "scan" /\ scNext /\ UNCHANGED <<which, sfVars, rfVars, crVars, mbVars, stVars, exVars, irVars>>
Flow == which = "flow" /\ sfNext /\ UNCHANGED <<which, scVars, rfVars, crVars, mbVars, stVars, exVars, irVars>>
Registers ==
    which = "registers" /\ rfNext /\ UNCHANGED <<which, scVars, sfVars, crVars, mbVars, stVars, exVars, irVars>>
Review ==
    which = "review" /\ crNext /\ UNCHANGED <<which, scVars, sfVars, rfVars, mbVars, stVars, exVars, irVars>>
Broker ==
    which = "broker" /\ mbNext /\ UNCHANGED <<which, scVars, sfVars, rfVars, crVars, stVars, exVars, irVars>>
Files ==
    which = "source" /\ stNext /\ UNCHANGED <<which, scVars, sfVars, rfVars, crVars, mbVars, exVars, irVars>>
Extract ==
    which = "extract" /\ exNext
      /\ UNCHANGED <<which, scVars, sfVars, rfVars, crVars, mbVars, stVars, irVars>>
Iphone ==
    which = "ios" /\ irNext
      /\ UNCHANGED <<which, scVars, sfVars, rfVars, crVars, mbVars, stVars, exVars>>

AnalysisNext == Scan \/ Flow \/ Registers \/ Review \/ Broker \/ Files \/ Extract \/ Iphone

AnalysisVars == <<which, scVars, sfVars, rfVars, crVars, mbVars, stVars, exVars, irVars>>

AnalysisSpec == AnalysisInit /\ [][AnalysisNext]_AnalysisVars

-----------------------------------------------------------------------------
\* The types of the analyzers' record, of the call graph with its limits, of the
\* scores of the filters, of the broker's reviews, of what is reported of a
\* source, of an extraction and of an iOS archive.
AnalysisTypeOK ==
    /\ which \in Part /\ scTypeOK /\ sfTypeOK /\ crTypeOK /\ mbTypeOK /\ evTypeOK
=============================================================================
