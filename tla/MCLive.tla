------------------------------- MODULE MCLive -------------------------------
(* The ACL entries explored: brod's own and another principal's, benign and  *)
(* excessive, allowed and denied.                                            *)
EXTENDS Live

Acl(who, perm, op, res) ==
    [principal |-> who, permission |-> perm, op |-> op, resource |-> res]

MCAcls == {Acl("brod", "allow", "Describe", "topic"),
           Acl("brod", "allow", "Read", "group"),
           Acl("brod", "allow", "Read", "topic"),
           Acl("other", "allow", "Write", "topic"),
           Acl("brod", "deny", "Write", "topic"),
           Acl("brod", "allow", "ClusterAction", "cluster")}
=============================================================================
