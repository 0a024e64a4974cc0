------------------------------ MODULE Sharing ------------------------------
(***************************************************************************)
(* Who may do what: namespaces and lists, the users and teams they are     *)
(* shared with (pkg/models/*_rights.go, list_users.go, list_team.go,       *)
(* namespace_users.go, namespace_team.go, teams.go, team_members.go), and  *)
(* what becomes of all of it when an account is deleted (user_delete.go).  *)
(*                                                                         *)
(* An action is one request of the user d, or the deletion of an account,  *)
(* without another one in between.  Nothing is archived; link shares, and  *)
(* the tasks, which go with their list, are left out.  A user has no more  *)
(* namespaces than fit on one page of Namespace.ReadAll.                   *)
(***************************************************************************)
EXTENDS Naturals, FiniteSets, Functions

CONSTANTS
    Users,
    GivenRights,                      \* the rights things are shared with
    MaxNamespace, MaxList, MaxTeam,   \* bounds of the auto-increment ids
    MaxShares                         \* bound of the shares at any time

RightRead == 0
RightWrite == 1
RightAdmin == 2

Rights == {RightRead, RightWrite, RightAdmin}

ASSUME ConstantsAssumption ==
    /\ GivenRights \subseteq Rights
    /\ {MaxNamespace, MaxList, MaxTeam, MaxShares} \subseteq Nat

VARIABLES
    users,       \* the users who have an account
    owner,       \* table namespaces: id -> owner_id
    list,        \* table lists: id -> [namespace, owner]
    team,        \* tables teams and team_members: id -> [members, admins]
    onNamespace, \* users_namespaces, team_namespaces: <<namespace, grantee>> -> right
    onList,      \* users_lists, team_lists: <<list, grantee>> -> right
    nextNamespace, nextList, nextTeam

tables == <<owner, list, team, onNamespace, onList>>
ids == <<nextNamespace, nextList, nextTeam>>
vars == <<users, tables, ids>>

Namespaces == DOMAIN owner
Lists == DOMAIN list
Teams == DOMAIN team

AsUser(u) == <<"user", u>>
AsTeam(t) == <<"team", t>>

ListRow == [namespace : Nat, owner : Users]
TeamRow == [members : SUBSET Users, admins : SUBSET Users]

Init ==
    /\ users = Users
    /\ owner = << >> /\ list = << >> /\ team = << >>
    /\ onNamespace = << >> /\ onList = << >>
    /\ nextNamespace = 1 /\ nextList = 1 /\ nextTeam = 1

-----------------------------------------------------------------------------
(* Rights *)

TeamsOf(u) == {t \in Teams : u \in team[t].members}

(* The grantees that stand for u: the user and the user's teams. *)
Standing(u) == {AsUser(u)} \union {AsTeam(t) : t \in TeamsOf(u)}

(* A row of the table shares gives u at least the right min on x. *)
Granted(shares, x, u, min) ==
    \E g \in Standing(u) : <<x, g>> \in DOMAIN shares /\ shares[<<x, g>>] >= min

NamespaceRight(u, n, min) ==
    /\ n \in Namespaces
    /\ owner[n] = u \/ Granted(onNamespace, n, u, min)

(* The joins of List.checkRight are outer joins: the shares of a namespace *)
(* that is gone count as well.                                             *)
ListRight(u, l, min) ==
    /\ l \in Lists
    /\ \/ list[l].owner = u
       \/ Granted(onList, l, u, min)
       \/ Granted(onNamespace, list[l].namespace, u, min)
       \/ list[l].namespace \in Namespaces /\ owner[list[l].namespace] = u

TeamAdmin(u, t) == t \in Teams /\ u \in team[t].admins

(* GetNamespaceByID fails if the owner's account is gone. *)
HasOwner(n) == n \in Namespaces /\ owner[n] \in users

-----------------------------------------------------------------------------
(* Namespaces and lists *)

CreateNamespace(d) ==
    /\ nextNamespace <= MaxNamespace
    /\ owner' = [n \in Namespaces \union {nextNamespace} |->
                    IF n = nextNamespace THEN d ELSE owner[n]]
    /\ nextNamespace' = nextNamespace + 1
    /\ UNCHANGED <<users, list, team, onNamespace, onList, nextList, nextTeam>>

CreateList(d, n) ==
    /\ nextList <= MaxList
    /\ NamespaceRight(d, n, RightWrite) /\ HasOwner(n)
    /\ list' = [l \in Lists \union {nextList} |->
                   IF l = nextList THEN [namespace |-> n, owner |-> d] ELSE list[l]]
    /\ nextList' = nextList + 1
    /\ UNCHANGED <<users, owner, team, onNamespace, onList, nextNamespace, nextTeam>>

MoveList(d, l, n) ==
    /\ ListRight(d, l, RightWrite) /\ list[l].namespace # n
    /\ NamespaceRight(d, n, RightWrite) /\ HasOwner(n)
    /\ list' = [list EXCEPT ![l].namespace = n]
    /\ UNCHANGED <<users, owner, team, onNamespace, onList, ids>>

(* The shares of the list stay behind. *)
DeleteList(d, l) ==
    /\ ListRight(d, l, RightAdmin)
    /\ list' = Restrict(list, Lists \ {l})
    /\ UNCHANGED <<users, owner, team, onNamespace, onList, ids>>

(* Its lists go with a namespace, its shares stay behind. *)
DeleteNamespace(d, n) ==
    /\ NamespaceRight(d, n, RightAdmin) /\ HasOwner(n)
    /\ owner' = Restrict(owner, Namespaces \ {n})
    /\ list' = Restrict(list, {l \in Lists : list[l].namespace # n})
    /\ UNCHANGED <<users, team, onNamespace, onList, ids>>

-----------------------------------------------------------------------------
(* Shares: the four handlers of a table, for users and for teams *)

Exists(g) == \/ \E u \in users : g = AsUser(u)
             \/ \E t \in Teams : g = AsTeam(t)

Shares == Cardinality(DOMAIN onNamespace) + Cardinality(DOMAIN onList)

With(shares, x, g, right) ==
    [k \in DOMAIN shares \union {<<x, g>>} |-> IF k = <<x, g>> THEN right ELSE shares[k]]

(* Mutant of ShareNamespace: who may write may share. *)
ShareNamespaceByWriter(d, n, g, right) ==
    /\ Shares < MaxShares
    /\ NamespaceRight(d, n, RightWrite) /\ HasOwner(n)
    /\ Exists(g) /\ g # AsUser(owner[n])
    /\ <<n, g>> \notin DOMAIN onNamespace
    /\ onNamespace' = With(onNamespace, n, g, right)
    /\ UNCHANGED <<users, owner, list, team, onList, ids>>

ShareNamespace(d, n, g, right) ==
    /\ Shares < MaxShares
    /\ NamespaceRight(d, n, RightAdmin) /\ HasOwner(n)
    /\ Exists(g) /\ g # AsUser(owner[n])
    /\ <<n, g>> \notin DOMAIN onNamespace
    /\ onNamespace' = With(onNamespace, n, g, right)
    /\ UNCHANGED <<users, owner, list, team, onList, ids>>

ShareList(d, l, g, right) ==
    /\ Shares < MaxShares
    /\ ListRight(d, l, RightAdmin)
    /\ Exists(g) /\ g # AsUser(list[l].owner)
    /\ <<l, g>> \notin DOMAIN onList
    /\ onList' = With(onList, l, g, right)
    /\ UNCHANGED <<users, owner, list, team, onNamespace, ids>>

UpdateNamespaceShare(d, n, g, right) ==
    /\ NamespaceRight(d, n, RightAdmin)
    /\ Exists(g) /\ <<n, g>> \in DOMAIN onNamespace
    /\ onNamespace' = [onNamespace EXCEPT ![<<n, g>>] = right]
    /\ UNCHANGED <<users, owner, list, team, onList, ids>>

UpdateListShare(d, l, g, right) ==
    /\ ListRight(d, l, RightAdmin)
    /\ Exists(g) /\ <<l, g>> \in DOMAIN onList
    /\ onList' = [onList EXCEPT ![<<l, g>>] = right]
    /\ UNCHANGED <<users, owner, list, team, onNamespace, ids>>

UnshareNamespace(d, n, g) ==
    /\ NamespaceRight(d, n, RightAdmin)
    /\ Exists(g) /\ <<n, g>> \in DOMAIN onNamespace
    /\ onNamespace' = Restrict(onNamespace, DOMAIN onNamespace \ {<<n, g>>})
    /\ UNCHANGED <<users, owner, list, team, onList, ids>>

UnshareList(d, l, g) ==
    /\ ListRight(d, l, RightAdmin)
    /\ Exists(g) /\ <<l, g>> \in DOMAIN onList
    /\ onList' = Restrict(onList, DOMAIN onList \ {<<l, g>>})
    /\ UNCHANGED <<users, owner, list, team, onNamespace, ids>>

-----------------------------------------------------------------------------
(* Teams *)

CreateTeam(d) ==
    /\ nextTeam <= MaxTeam
    /\ team' = [t \in Teams \union {nextTeam} |->
                   IF t = nextTeam THEN [members |-> {d}, admins |-> {d}] ELSE team[t]]
    /\ nextTeam' = nextTeam + 1
    /\ UNCHANGED <<users, owner, list, onNamespace, onList, nextNamespace, nextList>>

AddMember(d, t, u) ==
    /\ TeamAdmin(d, t)
    /\ u \in users \ team[t].members
    /\ team' = [team EXCEPT ![t].members = @ \union {u}]
    /\ UNCHANGED <<users, owner, list, onNamespace, onList, ids>>

(* Members may leave, the last admin too, but not the last member. *)
RemoveMember(d, t, u) ==
    /\ t \in Teams /\ u \in users
    /\ d = u \/ TeamAdmin(d, t)
    /\ Cardinality(team[t].members) # 1
    /\ team' = [team EXCEPT ![t].members = @ \ {u}, ![t].admins = @ \ {u}]
    /\ UNCHANGED <<users, owner, list, onNamespace, onList, ids>>

ToggleAdmin(d, t, u) ==
    /\ TeamAdmin(d, t)
    /\ u \in users \intersect team[t].members
    /\ team' = [team EXCEPT ![t].admins = IF u \in @ THEN @ \ {u} ELSE @ \union {u}]
    /\ UNCHANGED <<users, owner, list, onNamespace, onList, ids>>

NotOf(t, shares) == {k \in DOMAIN shares : k[2] # AsTeam(t)}

(* Mutant of DeleteTeam: the lists stay shared with the team. *)
DeleteTeamKeepingLists(d, t) ==
    /\ TeamAdmin(d, t)
    /\ team' = Restrict(team, Teams \ {t})
    /\ onNamespace' = Restrict(onNamespace, NotOf(t, onNamespace))
    /\ UNCHANGED <<users, owner, list, onList, ids>>

DeleteTeam(d, t) ==
    /\ TeamAdmin(d, t)
    /\ team' = Restrict(team, Teams \ {t})
    /\ onNamespace' = Restrict(onNamespace, NotOf(t, onNamespace))
    /\ onList' = Restrict(onList, NotOf(t, onList))
    /\ UNCHANGED <<users, owner, list, ids>>

-----------------------------------------------------------------------------
(* What the queries of Namespace.ReadAll and List.ReadAll find for u *)

NamespacesOf(u) == {n \in Namespaces : owner[n] = u \/ Granted(onNamespace, n, u, RightRead)}

(* Mutant of ListsOf: the teams a list is shared with are not joined. *)
ListsWithoutTeams(u) ==
    {l \in Lists :
        /\ list[l].namespace \in Namespaces
        /\ \/ list[l].owner = u
           \/ <<l, AsUser(u)>> \in DOMAIN onList
           \/ Granted(onNamespace, list[l].namespace, u, RightRead)}

(* The namespace is joined in, but its owner is not looked at. *)
ListsOf(u) ==
    {l \in Lists :
        /\ list[l].namespace \in Namespaces
        /\ \/ list[l].owner = u
           \/ Granted(onList, l, u, RightRead)
           \/ Granted(onNamespace, list[l].namespace, u, RightRead)}

-----------------------------------------------------------------------------
(* The deletion of an account *)

RowsOf(shares, x) == {k \in DOMAIN shares : k[1] = x}

(* The rows of x one of which is made admin: users come before teams. *)
Candidates(shares, x) ==
    LET userRows == {k \in RowsOf(shares, x) : k[2][1] = "user"}
        rows == IF userRows # {} THEN userRows ELSE RowsOf(shares, x)
    IN IF \E k \in rows : shares[k] = RightAdmin THEN {} ELSE rows

(* One candidate of each of the things xs, in any row the database returns first. *)
Heirs(shares, xs) ==
    {rows \in SUBSET DOMAIN shares :
        /\ \A k \in rows : k[1] \in xs /\ k \in Candidates(shares, k[1])
        /\ \A x \in xs : Candidates(shares, x) # {} =>
              Cardinality(rows \intersect Candidates(shares, x)) = 1}

Promote(shares, rows) == [k \in DOMAIN shares |-> IF k \in rows THEN RightAdmin ELSE shares[k]]

(* Mutant of Unshared: the teams are not looked at. *)
UnsharedWithUsers(shares, xs) ==
    {x \in xs : \A k \in RowsOf(shares, x) : k[2][1] # "user"}

Unshared(shares, xs) == {x \in xs : RowsOf(shares, x) = {}}

(* Mutant of DeleteUser: nobody is made admin. *)
DeleteUserWithoutHeirs(u) ==
    /\ u \in users
    /\ users' = users \ {u}
    /\ owner' = Restrict(owner, Namespaces \ Unshared(onNamespace, NamespacesOf(u)))
    /\ list' = Restrict(list, Lists \ Unshared(onList, ListsOf(u)))
    /\ UNCHANGED <<team, onNamespace, onList, ids>>

(* DeleteUser of the deletion cron, in one transaction: what u can see, and is *)
(* not shared itself, goes; what is shared gets an admin.  A namespace goes     *)
(* without its lists.  u's shares and memberships stay behind.                  *)
DeleteUser(u) ==
    /\ u \in users
    /\ users' = users \ {u}
    /\ \E heirs \in Heirs(onNamespace, NamespacesOf(u)) : onNamespace' = Promote(onNamespace, heirs)
    /\ \E heirs \in Heirs(onList, ListsOf(u)) : onList' = Promote(onList, heirs)
    /\ owner' = Restrict(owner, Namespaces \ Unshared(onNamespace, NamespacesOf(u)))
    /\ list' = Restrict(list, Lists \ Unshared(onList, ListsOf(u)))
    /\ UNCHANGED <<team, ids>>

-----------------------------------------------------------------------------
Grantees == {AsUser(u) : u \in Users} \union {AsTeam(t) : t \in 1..MaxTeam}

ContentRequest(d) ==
    \/ CreateNamespace(d)
    \/ \E n \in Namespaces : CreateList(d, n) \/ DeleteNamespace(d, n)
    \/ \E l \in Lists : DeleteList(d, l)
    \/ \E l \in Lists, n \in Namespaces : MoveList(d, l, n)

ShareRequest(d) ==
    \/ \E n \in Namespaces, g \in Grantees :
          \/ \E right \in GivenRights :
                ShareNamespace(d, n, g, right) \/ UpdateNamespaceShare(d, n, g, right)
          \/ UnshareNamespace(d, n, g)
    \/ \E l \in Lists, g \in Grantees :
          \/ \E right \in GivenRights : ShareList(d, l, g, right) \/ UpdateListShare(d, l, g, right)
          \/ UnshareList(d, l, g)

TeamRequest(d) ==
    \/ CreateTeam(d)
    \/ \E t \in Teams : DeleteTeam(d, t)
    \/ \E t \in Teams, u \in Users :
          AddMember(d, t, u) \/ RemoveMember(d, t, u) \/ ToggleAdmin(d, t, u)

Next ==
    \/ \E d \in users : ContentRequest(d) \/ ShareRequest(d) \/ TeamRequest(d)
    \/ \E u \in users : DeleteUser(u)

Spec == Init /\ [][Next]_vars

-----------------------------------------------------------------------------
TypeOK ==
    /\ users \subseteq Users
    /\ nextNamespace \in Nat \ {0} /\ nextList \in Nat \ {0} /\ nextTeam \in Nat \ {0}
    /\ owner \in [Namespaces -> Users] /\ Namespaces \subseteq 1..(nextNamespace - 1)
    /\ list \in [Lists -> ListRow] /\ Lists \subseteq 1..(nextList - 1)
    /\ team \in [Teams -> TeamRow] /\ Teams \subseteq 1..(nextTeam - 1)
    /\ \A t \in Teams : team[t].admins \subseteq team[t].members
    /\ onNamespace \in [DOMAIN onNamespace -> Rights]
    /\ DOMAIN onNamespace \subseteq (1..(nextNamespace - 1)) \X Grantees
    /\ onList \in [DOMAIN onList -> Rights]
    /\ DOMAIN onList \subseteq (1..(nextList - 1)) \X Grantees

(* The lists a user is shown are those the user may read: the queries of the two *)
(* ReadAll agree with the one of List.checkRight, whatever was shared, moved or   *)
(* deleted before.  Only a list whose namespace is gone is not shown to its owner. *)
Shown(u) == ListsOf(u) \union {l \in Lists : list[l].namespace \in NamespacesOf(u)}

ShownIffReadable ==
    \A u \in users, l \in Lists :
        list[l].namespace \in Namespaces => (l \in Shown(u) <=> ListRight(u, l, RightRead))

(* No share is left of a team that was deleted: its id is never looked up again. *)
NoShareOfDeletedTeam ==
    \A k \in DOMAIN onNamespace \union DOMAIN onList : k[2][1] = "team" => k[2][2] \in Teams

(* Whoever leaves or is removed, by an admin or not, a team keeps a member. *)
TeamNeverEmpty == \A t \in Teams : team[t].members # {}

(* Neither a deletion nor anybody who leaves takes a team apart: no share is left *)
(* of a team that is gone, and a team that is there has a member (teams.go,       *)
(* team_members.go).                                                              *)
TeamsSound == TypeOK /\ NoShareOfDeletedTeam /\ TeamNeverEmpty

(* Who shares something, changes a share or ends it gives a right on a list only *)
(* if being its admin, also where the share is one of the namespace or of a team. *)
OnlyAdminsGiveRights ==
    [][\A u \in Users, l \in Lists, min \in Rights :
          ListRight(u, l, min)' /\ ~ListRight(u, l, min) =>
             \A d \in users : ShareRequest(d) => ListRight(d, l, RightAdmin)]_vars

Deleted == users \ users'

(* What a deleted user could see and is kept has an admin among those it is *)
(* shared with.                                                             *)
KeptHasAdmin ==
    [][\A u \in Deleted :
          /\ \A n \in NamespacesOf(u) \intersect Namespaces' :
                \E k \in RowsOf(onNamespace', n) : onNamespace'[k] = RightAdmin
          /\ \A l \in ListsOf(u) \intersect Lists' :
                \E k \in RowsOf(onList', l) : onList'[k] = RightAdmin]_vars

(* The deletion of an account takes no right on a namespace from anybody else. *)
OthersKeepNamespaces ==
    [][Deleted # {} =>
          \A v \in users', n \in Namespaces, min \in Rights :
             NamespaceRight(v, n, min) => NamespaceRight(v, n, min)']_vars

(* ... and no list of theirs goes with it (the comments on DeleteUser and in it: *)
(* "all their associated lists", "Delete everything not shared with anybody        *)
(* else").                                                                         *)
OthersKeepLists ==
    [][Deleted # {} => \A l \in Lists : list[l].owner \in users' => l \in Lists']_vars
=============================================================================
