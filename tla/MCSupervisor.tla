---------------------------- MODULE MCSupervisor ----------------------------
(* Supervisor on small instances: a SQL that reads the client's schema, one  *)
(* that reads the owner's, and one that is not just a SELECT.             *)
EXTENDS Supervisor, TLC

Sql(id, reads, dangerous) ==
    [id |-> id, select |-> TRUE, forbidden |-> FALSE, reads |-> reads, bare |-> FALSE,
     dangerous |-> dangerous]

MCSqls == {Sql("own", {"front_sche_client"}, FALSE),
           Sql("of_owners", {"front_sche"}, FALSE),
           Sql("dangerous", {"front_sche_client"}, TRUE)}

MCIdentities ==
    {[profileType |-> "client", roleId |-> None]}
      \cup {[profileType |-> "staff", roleId |-> r] : r \in {None, "owner"}}

=============================================================================
