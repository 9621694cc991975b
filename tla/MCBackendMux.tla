----------------------------- MODULE MCBackendMux -----------------------------
(* BackendMux with two clients, or one that pipelines. *)
EXTENDS BackendMux

MCClients == {"c1", "c2"}

Load(l1, l2) == [c \in MCClients |-> IF c = "c1" THEN l1 ELSE l2]

MCLoads ==
    {Load(<<2>>, <<1>>), Load(<<1, 2>>, <<>>), Load(<<2, 1>>, <<>>), Load(<<2, 2>>, <<>>),
     Load(<<1>>, <<1>>), Load(<<1, 1>>, <<>>)}

\* A request over two slots and a plain one.
MCOneEach == {Load(<<2>>, <<1>>)}
===============================================================================
