----------------------------- MODULE MCKernelIPC -----------------------------
(* Constants of the TLC runs of KernelIPC.                                 *)
EXTENDS KernelIPC, TLC

CONSTANTS c1, c2, v1, v2, s1, s2, h1, h2, port, srv

(* The client has sessions with the server; both use a service.            *)
PortOf4 == s1 :> port @@ s2 :> port @@ h1 :> srv @@ h2 :> srv
Users4 == s1 :> Clients @@ s2 :> Clients @@ h1 :> Servers @@ h2 :> Clients

(* The client uses a service.                                              *)
PortOfService == h1 :> srv
UsersOfService == h1 :> Clients

(* The service takes one session at a time.                                *)
Limits == [p \in Ports |-> IF p = srv THEN 1 ELSE 2]
=============================================================================
