------------------------------- MODULE MCPolicy -------------------------------
(* Layers worth telling apart for one document's extension and one program's. *)
EXTENDS Policy

L(allowed, mode, denied, extend) ==
    [allowed |-> allowed, mode |-> mode, denied |-> denied, user_may_extend |-> extend, quiet |-> TRUE]

MCKeys == {"doc", "exe"}
MCOdd == {"d.c"}
MCLayers ==
    {Silent,
     L({{}}, {}, {}, {}),
     L({{"exe"}}, {"replace"}, {}, {}),
     L({{"exe", "d.c"}}, {"append"}, {}, {}),
     L({}, {}, {{"doc"}}, {TRUE}),
     L({}, {}, {}, {FALSE}),
     L({{"doc"}}, {}, {}, {FALSE}),
     [Silent EXCEPT !.quiet = FALSE]}
================================================================================
