---------------------------- MODULE MCAutomation ----------------------------
(* The flow of one periodic update over two templates, which goes on for     *)
(* hours and over restarts and must neither repeat nor forget anything.      *)
EXTENDS Automation

CONSTANTS t1, t2

MCTwoTemplates == <<t1, t2>>
=============================================================================
