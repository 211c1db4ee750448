-------------------------- MODULE MCRemoteCommand --------------------------
(* Two subscriptions of one tenant, one in each source, and one of another;  *)
(* two tenants on up to two app instances; and service-manager instances   *)
(* that differ in plan or tenant.                                            *)
EXTENDS RemoteCommand

CONSTANTS s1, s2, s3, t1, t2, i1, i2, i3, b1, b3, p1, p2, c1

MCTenantOf == [s \in Subscription |-> IF s = s3 THEN t2 ELSE t1]
MCSourceOf == [s \in Subscription |-> IF s = s1 THEN "SUBSCRIPTION_MANAGER" ELSE "SAAS_REGISTRY"]
MCInstanceOf == [b \in Binding |-> IF b = b3 THEN i2 ELSE i1]
MCTenantOfInstance == [i \in Instance |-> IF i = i3 THEN t2 ELSE t1]
MCPlanOf == [i \in Instance |-> IF i = i2 THEN p2 ELSE p1]
MCWaits == {-1, 0, 10, 1000}
=============================================================================
