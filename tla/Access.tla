------------------------------- MODULE Access -------------------------------
(***************************************************************************)
(* Who may see what: pure decisions over a record and a viewer.            *)
(***************************************************************************)
EXTENDS Naturals, FiniteSets

\* AccessControl.  domain, emails and tags count only for the type that names them.
AccessControl(domains, emails, tags) ==
    [type : {"public", "private", "domain", "specific", "tagged"},
     domain : domains, emails : SUBSET emails, tags : SUBSET tags]

Private == [type |-> "private", domain |-> "", emails |-> {}, tags |-> {}]
OpenToAll == [Private EXCEPT !.type = "public"]

\* AccessContext: what a verified token says of its holder, the tags of the
\* holder's domain added.  "" is no e-mail and no domain.
Context(user, derived) ==
    IF user.domain = "" THEN user ELSE [user EXCEPT !.tags = @ \union derived]

\* The evaluator of the five types.  An owner sees what is its own.
CanAccess(ac, ctx, owner) ==
    \/ ac.type = "public"
    \/ owner # "" /\ owner = ctx.uid
    \/ ac.type = "domain" /\ ctx.domain # "" /\ ctx.domain = ac.domain
    \/ ac.type = "specific" /\ ctx.email # "" /\ ctx.email \in ac.emails
    \/ ac.type = "tagged" /\ ctx.tags \intersect ac.tags # {}

IsOwner(resource, ctx) == resource.owner # "" /\ resource.owner = ctx.uid
=============================================================================
