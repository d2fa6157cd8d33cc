----------------------------- MODULE MCClassObjects -----------------------------
(* Two versions of a document class, the second without a script and in a  *)
(* later version of the library, and a control in the first version.       *)
EXTENDS ClassObjects

Table(progid, independent, class, major, script, control) ==
  [progid |-> progid, independent |-> independent, class |-> class,
   lib |-> "app", major |-> major, script |-> script, control |-> control]

MCInfos ==
  {Table("App.Doc.1", "App.Doc", "doc", 10, "doc.lua", FALSE),
   Table("App.Doc.2", "App.Doc", "doc", 16, "none", FALSE),
   Table("App.View.1", "App.View", "view", 10, "view.lua", TRUE)}
================================================================================
