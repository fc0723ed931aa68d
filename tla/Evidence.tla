------------------------------ MODULE Evidence ------------------------------
(***************************************************************************)
(* What an analysis reads of an application: what is extracted of an       *)
(* Android package (Extraction), its Java and Kotlin sources               *)
(* (SourceTaint), and the content of an iOS archive (IosReview).  Each has *)
(* variables of its own and shares nothing with the others, so a step is a *)
(* step of one of them.                                                    *)
(***************************************************************************)
EXTENDS Extraction, SourceTaint, IosReview

evVars == <<exVars, stVars, irVars>>
evInit == exInit /\ stInit /\ irInit
evNext ==
    \/ exNext /\ UNCHANGED <<stVars, irVars>>
    \/ stNext /\ UNCHANGED <<exVars, irVars>>
    \/ irNext /\ UNCHANGED <<exVars, stVars>>
evSpec == evInit /\ [][evNext]_evVars

evTypeOK == exTypeOK /\ stTypeOK /\ irTypeOK

\* What is recorded of a package's content, an extracted one or an iOS archive, is
\* true of the file it names and partial where something of it was passed over.
EvidenceHonest == ExtractionHonest /\ ReviewHonest
=============================================================================
