--------------------------------- MODULE Access ---------------------------------
(***************************************************************************)
(* Who may do what to which restaurant: the principal of a request and the *)
(* tenant it is pinned to (deps.py, db/session.py), row level security     *)
(* (alembic 0001), and the endpoints of restaurants, members and menu.     *)
(*                                                                         *)
(* Nothing in the code takes a membership away, so what a request was      *)
(* admitted for still stands when it acts: admission and the operation are *)
(* one step, but for the two operations that read first and insert later.  *)
(* Those are held by a session, other requests commit in between.          *)
(***************************************************************************)
EXTENDS Naturals, FiniteSets

CONSTANTS
  User, PlatformAdmin,  \* users.is_platform_admin, as the access token claims it
  ApiKey,
  Tenant, NoTenant,     \* ids of restaurants
  Founder, FirstHouse,  \* the restaurant that was there first, and its owner
  Dish, FirstDish,      \* ids of products, and one the first restaurant has
  Session,              \* database sessions that may be open at once
  Granted               \* roles that invitations name

Rank == [owner |-> 3, manager |-> 2, staff |-> 1, viewer |-> 0]
MemberRole == DOMAIN Rank
CanActAs(role, required) == Rank[role] >= Rank[required]

ASSUME AccessConstants ==
  /\ PlatformAdmin \subseteq User /\ Founder \in User
  /\ FirstHouse \in Tenant /\ NoTenant \notin Tenant
  /\ FirstDish \in Dish /\ Granted \subseteq MemberRole
  /\ IsFiniteSet(Session)

VARIABLES
  houses,     \* the restaurants
  members,    \* members[r][u]: the role of the membership, or "none"
  validKeys,  \* API keys, all of the first restaurant, that are not revoked
  dishes,     \* dishes[x]: the restaurant of product x, or NoTenant
  menus,      \* menus[r]: how many menus the restaurant has
  session,    \* session[s]: what a request has read and is about to insert
  strays      \* history: principals that reached a row they were not entitled to

accessVars == <<houses, members, validKeys, dishes, menus, session, strays>>

NoWork == [work |-> "idle"]
OpenSession ==
  {NoWork}
    \cup [work : {"invite"}, house : Tenant, user : User, role : Granted]
    \cup [work : {"category"}, house : Tenant, hasMenu : BOOLEAN]

Principal == [kind : {"user"}, id : User] \cup [kind : {"api_key"}, id : ApiKey]

AccessTypeOK ==
  /\ houses \subseteq Tenant
  /\ members \in [Tenant -> [User -> MemberRole \cup {"none"}]]
  /\ validKeys \subseteq ApiKey
  /\ dishes \in [Dish -> Tenant \cup {NoTenant}]
  /\ menus \in [Tenant -> 0..Cardinality(Session)]
  /\ session \in [Session -> OpenSession]
  /\ strays \subseteq Principal

AccessInit ==
  /\ houses = {FirstHouse}
  /\ members = [r \in Tenant |-> [u \in User |->
       IF r = FirstHouse /\ u = Founder THEN "owner" ELSE "none"]]
  /\ validKeys = ApiKey
  /\ dishes = [x \in Dish |-> IF x = FirstDish THEN FirstHouse ELSE NoTenant]
  /\ menus = [r \in Tenant |-> 0]
  /\ session = [s \in Session |-> NoWork]
  /\ strays = {}

--------------------------------------------------------------------------------
(* _resolve_principal: a token that decodes, or a key that is not revoked   *)
(* (its expiry is read and not compared).                                   *)
Present == {p \in Principal : p.kind = "user" \/ p.id \in validKeys}

(* get_scope: the settings of the transaction that the policies read. *)
ContextOf(p) ==
  [user   |-> p,
   admin  |-> p.kind = "user" /\ p.id \in PlatformAdmin,
   tenant |-> IF p.kind = "api_key" THEN FirstHouse ELSE NoTenant]

(* require_tenant sets app.restaurant_id once it has admitted the request. *)
Pinned(p, r) == [ContextOf(p) EXCEPT !.tenant = r]

(* The policies: tenant_all; that of restaurants; that of memberships. *)
TenantRow(ctx, r) == ctx.admin \/ ctx.tenant = r
HouseRow(ctx, r) ==
  TenantRow(ctx, r) \/ (ctx.user.kind = "user" /\ members[r][ctx.user.id] # "none")
MemberRow(ctx, r, u) == TenantRow(ctx, r) \/ ctx.user = [kind |-> "user", id |-> u]

(* Variant for the mutation checks: any member will do. *)
Admitted_AnyMember(p, r, required) ==
  IF p.kind = "api_key" THEN ContextOf(p).tenant = r
  ELSE members[r][p.id] # "none" \/ ContextOf(p).admin

(* require_tenant: a key acts for its restaurant, whatever the role; a user *)
(* needs a membership of that rank, a platform admin none at all, but one   *)
(* who has a membership is held to it.                                      *)
Admitted(p, r, required) ==
  IF p.kind = "api_key" THEN ContextOf(p).tenant = r
  ELSE IF MemberRow(ContextOf(p), r, p.id) /\ members[r][p.id] # "none"
         THEN CanActAs(members[r][p.id], required)
         ELSE ContextOf(p).admin

(* The rows of products that the policy, and that the query, let through. *)
Stored == {x \in Dish : dishes[x] # NoTenant}
ByPolicy(ctx) == {x \in Stored : TenantRow(ctx, dishes[x])}
ByQuery(r) == {x \in Stored : dishes[x] = r}
Reached(p, r) == ByPolicy(Pinned(p, r)) \cap ByQuery(r)

--------------------------------------------------------------------------------
(* Who should be able to: said without the code's order of questions. *)
Entitled(p, r, required) ==
  \/ p.kind = "api_key" /\ r = FirstHouse
  \/ p.kind = "user" /\ p.id \in PlatformAdmin
  \/ p.kind = "user" /\ members[r][p.id] # "none" /\ Rank[members[r][p.id]] >= Rank[required]

(* History: the row is of another restaurant, p is not entitled to it, or   *)
(* the policy alone would not have kept p from another restaurant's rows.   *)
Records(p, r, required, rows) ==
  strays' =
    IF /\ Entitled(p, r, required)
       /\ \A x \in rows : dishes[x] = r
       /\ p.id \in PlatformAdmin \/ \A x \in ByPolicy(Pinned(p, r)) : dishes[x] = r
    THEN strays ELSE strays \cup {p}

(* POST /restaurants.  The INSERT returns its server defaults, so the new   *)
(* row has to pass the policy of SELECT before its owner's membership is    *)
(* there: only a platform admin's does.                                     *)
CreateRestaurant(p, r) ==
  /\ p.kind = "user" /\ r \notin houses
  /\ HouseRow(ContextOf(p), r)
  /\ houses' = houses \cup {r}
  /\ members' = [members EXCEPT ![r][p.id] = "owner"]
  /\ UNCHANGED <<validKeys, dishes, menus, session, strays>>

(* GET /restaurants: those the user is a member of. *)
ListMyRestaurants(p) ==
  /\ p.kind = "user"
  /\ LET mine == {r \in houses : members[r][p.id] # "none" /\ HouseRow(ContextOf(p), r)}
     IN  strays' = IF \A r \in mine : Entitled(p, r, "viewer") THEN strays ELSE strays \cup {p}
  /\ UNCHANGED <<houses, members, validKeys, dishes, menus, session>>

(* The endpoints that read the restaurant, its members, categories or       *)
(* products (VIEWER), and the updates of one product or of the restaurant   *)
(* itself, whose content is not modelled.                                   *)
Visit(p, r, required, rows) ==
  /\ Admitted(p, r, required)
  /\ r \in houses /\ HouseRow(Pinned(p, r), r)
  /\ Records(p, r, required, rows)
  /\ UNCHANGED <<houses, members, validKeys, dishes, menus, session>>

Read(p, r) == Visit(p, r, "viewer", Reached(p, r))
UpdateRestaurant(p, r) == Visit(p, r, "manager", {})
UpdateProduct(p, r, x) == x \in Reached(p, r) /\ Visit(p, r, "manager", {x})
SetAvailability(p, r, x) == x \in Reached(p, r) /\ Visit(p, r, "staff", {x})

(* POST /menu/products, with its variants; the policy checks the new row. *)
CreateProduct(p, r, x) ==
  /\ Admitted(p, r, "manager")
  /\ r \in houses /\ TenantRow(Pinned(p, r), r)
  /\ x \notin Stored
  /\ dishes' = [dishes EXCEPT ![x] = r]
  /\ Records(p, r, "manager", {})
  /\ UNCHANGED <<houses, members, validKeys, menus, session>>

--------------------------------------------------------------------------------
(* POST /menu/categories looks for the restaurant's menu ... *)
CreateCategory(s, p, r) ==
  /\ session[s] = NoWork
  /\ Admitted(p, r, "manager") /\ r \in houses
  /\ session' = [session EXCEPT ![s] = [work |-> "category", house |-> r, hasMenu |-> menus[r] > 0]]
  /\ Records(p, r, "manager", {})
  /\ UNCHANGED <<houses, members, validKeys, dishes, menus>>

(* ... and inserts one with the category when it has seen none. *)
CommitCategory(s) ==
  /\ session[s].work = "category"
  /\ menus' = [menus EXCEPT ![session[s].house] = @ + (IF session[s].hasMenu THEN 0 ELSE 1)]
  /\ session' = [session EXCEPT ![s] = NoWork]
  /\ UNCHANGED <<houses, members, validKeys, dishes, strays>>

(* POST /members: the user exists and is no member that the query sees ... *)
InviteMember(s, p, r, u, role) ==
  /\ session[s] = NoWork
  /\ Admitted(p, r, "manager") /\ r \in houses
  /\ ~(MemberRow(Pinned(p, r), r, u) /\ members[r][u] # "none")
  /\ session' = [session EXCEPT ![s] = [work |-> "invite", house |-> r, user |-> u, role |-> role]]
  /\ Records(p, r, "manager", {})
  /\ UNCHANGED <<houses, members, validKeys, dishes, menus>>

(* ... and the key (restaurant_id, user_id) has the last word. *)
CommitInvite(s) ==
  /\ session[s].work = "invite"
  /\ members[session[s].house][session[s].user] = "none"
  /\ members' = [members EXCEPT ![session[s].house][session[s].user] = session[s].role]
  /\ session' = [session EXCEPT ![s] = NoWork]
  /\ UNCHANGED <<houses, validKeys, dishes, menus, strays>>

(* The request dies, or the key is taken: nothing is kept. *)
SessionFails(s) ==
  /\ session[s] # NoWork
  /\ session' = [session EXCEPT ![s] = NoWork]
  /\ UNCHANGED <<houses, members, validKeys, dishes, menus, strays>>

(* api_keys.revoked_at is set by hand: no endpoint does. *)
RevokeKey(k) ==
  /\ k \in validKeys
  /\ validKeys' = validKeys \ {k}
  /\ UNCHANGED <<houses, members, dishes, menus, session, strays>>

AccessNext ==
  \/ \E p \in Present :
       \/ ListMyRestaurants(p)
       \/ \E r \in Tenant :
            \/ CreateRestaurant(p, r) \/ Read(p, r) \/ UpdateRestaurant(p, r)
            \/ \E x \in Dish : UpdateProduct(p, r, x) \/ SetAvailability(p, r, x) \/ CreateProduct(p, r, x)
            \/ \E s \in Session :
                 \/ CreateCategory(s, p, r)
                 \/ \E u \in User, role \in Granted : InviteMember(s, p, r, u, role)
  \/ \E s \in Session : CommitCategory(s) \/ CommitInvite(s) \/ SessionFails(s)
  \/ \E k \in ApiKey : RevokeKey(k)

AccessSpec == AccessInit /\ [][AccessNext]_accessVars

--------------------------------------------------------------------------------
(* However memberships came about, a request acts on the restaurant of its  *)
(* path only, for a principal entitled to that; and but for platform admins *)
(* the policy of the table would see to it without the query's own filter.  *)
TenantsKeptApart == strays = {}
================================================================================
