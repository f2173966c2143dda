----------------------- MODULE MCResourceManagement -----------------------
(***************************************************************************)
(* ResourceManagement on small instances.                                  *)
(***************************************************************************)
EXTENDS ResourceManagement

CONSTANTS p1, a1, a2

\* A WSA and a CWSA with the same name.
WSA  == [ns |-> "team", name |-> <<"a">>]
CWSA == [ns |-> "", name |-> <<"a">>]
WSAandCWSA == {WSA, CWSA}

\* Inline permissions and a ClusterRole; the same ClusterRole for another
\* account; a Role with the name of that ClusterRole.
FewSpecs ==
    {[permissions |-> p1, roles |-> {}, clusterRoles |-> {<<"x">>}, accounts |-> {a1}],
     [permissions |-> NoPermissions, roles |-> {}, clusterRoles |-> {<<"x">>}, accounts |-> {a2}],
     [permissions |-> p1, roles |-> {<<"x">>}, clusterRoles |-> {}, accounts |-> {a2}]}
=============================================================================
