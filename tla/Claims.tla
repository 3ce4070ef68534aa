------------------------------- MODULE Claims -------------------------------
(***************************************************************************)
(* Who a request speaks for.  APISIX checks the token and leaves what it   *)
(* learned in four headers; auth_claims.go and auth_middleware.go turn     *)
(* them into claims or into none, and the directives of the schema         *)
(* (graph/directives) let a root field run or refuse it.  No state.        *)
(***************************************************************************)
EXTENDS FiniteSets

CONSTANTS Users,       \* subjects; a subject's email is the subject itself here
          Roles,       \* names of roles
          NoClaims     \* no claims in the request's context

ASSUME ClaimsAssumption == {"SUPER_ADMIN", "ADMIN"} \subseteq Roles

\* The JSON of custom:permissions: "" is a list of no roles.
Permissions == [parses : BOOLEAN, roles : SUBSET Roles]
CognitoClaims == [sub : Users \cup {""}, email : Users \cup {""}, permissions : Permissions]

\* The four headers; "" is an absent one.  claims is NoClaims where the JSON
\* of X-JWT-Claims is absent or does not parse.
Headers == [validated : BOOLEAN, userID : Users \cup {""}, userEmail : Users \cup {""},
            claims : CognitoClaims \cup {NoClaims}]

\* (Mutant: X-User-ID is not compared with the claim "sub".)
ParseAPISIXHeadersAnyID(h) ==
    IF h.claims = NoClaims THEN NoClaims
    ELSE IF h.userEmail \notin {"", h.claims.email} THEN NoClaims
    ELSE h.claims

ParseAPISIXHeaders(h) ==
    IF \/ h.claims = NoClaims
       \/ h.userID \notin {"", h.claims.sub}
       \/ h.userEmail \notin {"", h.claims.email}
    THEN NoClaims
    ELSE h.claims

\* AuthMiddleware refuses nobody: whoever has no usable claims goes on without.
AuthMiddleware(h) ==
    LET claims == ParseAPISIXHeaders(h)
    IN IF ~h.validated \/ claims = NoClaims THEN NoClaims
       ELSE IF claims.sub = "" THEN NoClaims
       ELSE claims

GetRoles(claims) == IF claims.permissions.parses THEN claims.permissions.roles ELSE {}
HasRole(claims, role) == role \in GetRoles(claims)

\* The directives: does the field run?
Auth(claims) == claims # NoClaims /\ claims.sub # ""
HasRoleDirective(claims, role) == claims # NoClaims /\ HasRole(claims, role)
=============================================================================
