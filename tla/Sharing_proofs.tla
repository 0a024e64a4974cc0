-------------------------- MODULE Sharing_proofs ---------------------------
(***************************************************************************)
(* For any users, rights and shares.  The tables fit together after any    *)
(* sequence of requests and deletions of accounts: no share of a deleted   *)
(* team is left, and no team loses its last member.  Rights come from      *)
(* admins, what is shown is what may be read, and what an account shared   *)
(* with others keeps an admin when it goes.                                *)
(***************************************************************************)
EXTENDS Sharing, FiniteSetTheorems, TLAPS

(* The parts of TypeOK, a table each. *)
OwnerOK == owner \in [Namespaces -> Users] /\ Namespaces \subseteq 1..(nextNamespace - 1)
ListOK == list \in [Lists -> ListRow] /\ Lists \subseteq 1..(nextList - 1)
TeamOK ==
    /\ team \in [Teams -> TeamRow] /\ Teams \subseteq 1..(nextTeam - 1)
    /\ \A t \in Teams : team[t].admins \subseteq team[t].members
OnNamespaceOK ==
    /\ onNamespace \in [DOMAIN onNamespace -> Rights]
    /\ DOMAIN onNamespace \subseteq (1..(nextNamespace - 1)) \X Grantees
OnListOK ==
    /\ onList \in [DOMAIN onList -> Rights]
    /\ DOMAIN onList \subseteq (1..(nextList - 1)) \X Grantees
IdsOK ==
    nextNamespace \in Nat \ {0} /\ nextList \in Nat \ {0} /\ nextTeam \in Nat \ {0}

LEMMA TypeOKParts ==
    TypeOK <=> /\ users \subseteq Users
               /\ IdsOK /\ OwnerOK /\ ListOK /\ TeamOK /\ OnNamespaceOK /\ OnListOK
BY DEF TypeOK, IdsOK, OwnerOK, ListOK, TeamOK, OnNamespaceOK, OnListOK

LEMMA TypeOKPartsNext ==
    TypeOK' <=> /\ users' \subseteq Users
                /\ IdsOK' /\ OwnerOK' /\ ListOK' /\ TeamOK' /\ OnNamespaceOK' /\ OnListOK'
BY DEF TypeOK, IdsOK, OwnerOK, ListOK, TeamOK, OnNamespaceOK, OnListOK

(* What the steps that only change the content keep: the shares and teams. *)
TeamsUnchanged == UNCHANGED <<team, onNamespace, onList, nextTeam>>

LEMMA InvWithTeamsUnchanged ==
    ASSUME TeamsSound, TeamsUnchanged, TypeOK' PROVE TeamsSound'
BY DEF TeamsSound, TeamsUnchanged, NoShareOfDeletedTeam, TeamNeverEmpty, Teams

LEMMA InitInv == Init => TeamsSound
BY DEF Init, TeamsSound, TypeOK, NoShareOfDeletedTeam, TeamNeverEmpty, Namespaces, Lists, Teams

-----------------------------------------------------------------------------
(* Namespaces and lists *)

LEMMA CreateNamespaceKeepsInv ==
    ASSUME TeamsSound, NEW d \in users, CreateNamespace(d) PROVE TeamsSound'
<1> USE DEF CreateNamespace
<1> TypeOK BY DEF TeamsSound
<1>1. OwnerOK'
  BY TypeOKParts DEF OwnerOK, Namespaces, IdsOK
<1>2. OnNamespaceOK'
  BY TypeOKParts DEF OnNamespaceOK, IdsOK, Grantees, AsUser, AsTeam
<1>3. ListOK' /\ TeamOK' /\ OnListOK'
  BY TypeOKParts DEF ListOK, TeamOK, OnListOK, Lists, Teams, Grantees
<1>4. TypeOK'
  BY <1>1, <1>2, <1>3, TypeOKParts, TypeOKPartsNext DEF IdsOK
<1> QED BY <1>4, InvWithTeamsUnchanged DEF TeamsUnchanged

LEMMA CreateListKeepsInv ==
    ASSUME TeamsSound, NEW d \in users, NEW n \in Namespaces, CreateList(d, n) PROVE TeamsSound'
<1> USE DEF CreateList
<1> TypeOK BY DEF TeamsSound
<1>1. n \in Nat
  BY TypeOKParts DEF OwnerOK, IdsOK
<1>2. ListOK'
  BY <1>1, TypeOKParts DEF ListOK, Lists, ListRow, IdsOK
<1>3. OnListOK'
  BY TypeOKParts DEF OnListOK, IdsOK, Grantees, AsUser, AsTeam
<1>4. OwnerOK' /\ TeamOK' /\ OnNamespaceOK'
  BY TypeOKParts DEF OwnerOK, TeamOK, OnNamespaceOK, Namespaces, Teams, Grantees
<1>5. TypeOK'
  BY <1>2, <1>3, <1>4, TypeOKParts, TypeOKPartsNext DEF IdsOK
<1> QED BY <1>5, InvWithTeamsUnchanged DEF TeamsUnchanged

LEMMA MoveListKeepsInv ==
    ASSUME TeamsSound, NEW d \in users, NEW l \in Lists, NEW n \in Namespaces, MoveList(d, l, n)
    PROVE  TeamsSound'
<1> USE DEF MoveList, ids
<1> TypeOK BY DEF TeamsSound
<1>1. n \in Nat
  BY TypeOKParts DEF OwnerOK, IdsOK
<1>2. ListOK'
  BY <1>1, TypeOKParts DEF ListOK, Lists, ListRow
<1>3. OwnerOK' /\ TeamOK' /\ OnNamespaceOK' /\ OnListOK'
  BY TypeOKParts DEF OwnerOK, TeamOK, OnNamespaceOK, OnListOK, Namespaces, Teams, Grantees
<1>4. TypeOK'
  BY <1>2, <1>3, TypeOKParts, TypeOKPartsNext DEF IdsOK
<1> QED BY <1>4, InvWithTeamsUnchanged DEF TeamsUnchanged

(* Rows of namespaces and of lists may go. *)
LEMMA ContentGoesKeepsTypeOK ==
    ASSUME TypeOK, NEW N \in SUBSET Namespaces, NEW L \in SUBSET Lists,
           owner' = Restrict(owner, N), list' = Restrict(list, L),
           UNCHANGED <<nextNamespace, nextList>>
    PROVE  OwnerOK' /\ ListOK'
BY TypeOKParts DEF OwnerOK, ListOK, Namespaces, Lists, Restrict

LEMMA AllOf ==
    ASSUME TypeOK
    PROVE  owner = Restrict(owner, Namespaces) /\ list = Restrict(list, Lists)
BY TypeOKParts DEF OwnerOK, ListOK, Restrict

LEMMA DeleteListKeepsInv ==
    ASSUME TeamsSound, NEW d \in users, NEW l \in Lists, DeleteList(d, l) PROVE TeamsSound'
<1> USE DEF DeleteList, ids
<1> TypeOK BY DEF TeamsSound
<1>1. owner' = Restrict(owner, Namespaces)
  BY AllOf
<1>2. OwnerOK' /\ ListOK'
  BY <1>1, ContentGoesKeepsTypeOK
<1>3. TeamOK' /\ OnNamespaceOK' /\ OnListOK'
  BY TypeOKParts DEF TeamOK, OnNamespaceOK, OnListOK, Teams, Grantees
<1>4. TypeOK'
  BY <1>2, <1>3, TypeOKParts, TypeOKPartsNext DEF IdsOK
<1> QED BY <1>4, InvWithTeamsUnchanged DEF TeamsUnchanged

LEMMA DeleteNamespaceKeepsInv ==
    ASSUME TeamsSound, NEW d \in users, NEW n \in Namespaces, DeleteNamespace(d, n) PROVE TeamsSound'
<1> USE DEF DeleteNamespace, ids
<1> TypeOK BY DEF TeamsSound
<1>1. OwnerOK' /\ ListOK'
  BY ContentGoesKeepsTypeOK
<1>2. TeamOK' /\ OnNamespaceOK' /\ OnListOK'
  BY TypeOKParts DEF TeamOK, OnNamespaceOK, OnListOK, Teams, Grantees
<1>3. TypeOK'
  BY <1>1, <1>2, TypeOKParts, TypeOKPartsNext DEF IdsOK
<1> QED BY <1>3, InvWithTeamsUnchanged DEF TeamsUnchanged

-----------------------------------------------------------------------------
(* Shares *)

(* What a share can be given to: a user, or a team that exists. *)
LEMMA GranteeExists ==
    ASSUME NEW g \in Grantees, Exists(g), g[1] = "team" PROVE g[2] \in Teams
BY DEF Exists, AsUser, AsTeam

(* A table of shares to which a row was added, in which a right was changed, or *)
(* from which a row was taken.                                                 *)
SharesBecome(old, new, x, g, right) ==
    \/ new = With(old, x, g, right)
    \/ <<x, g>> \in DOMAIN old /\ new = [old EXCEPT ![<<x, g>>] = right]
    \/ new = Restrict(old, DOMAIN old \ {<<x, g>>})

LEMMA SharesStayTyped ==
    ASSUME NEW old, NEW new, NEW I, NEW x \in I, NEW g \in Grantees, NEW right \in Rights,
           old \in [DOMAIN old -> Rights], DOMAIN old \subseteq I \X Grantees,
           SharesBecome(old, new, x, g, right)
    PROVE  /\ new \in [DOMAIN new -> Rights] /\ DOMAIN new \subseteq I \X Grantees
           /\ DOMAIN new \subseteq DOMAIN old \union {<<x, g>>}
<1> DEFINE k == <<x, g>>
<1>1. CASE new = With(old, x, g, right)
  BY <1>1 DEF With
<1>2. CASE k \in DOMAIN old /\ new = [old EXCEPT ![k] = right]
  BY <1>2
<1>3. CASE new = Restrict(old, DOMAIN old \ {k})
  BY <1>3 DEF Restrict
<1> QED BY <1>1, <1>2, <1>3 DEF SharesBecome

LEMMA OnNamespaceChangeKeepsInv ==
    ASSUME TeamsSound, NEW n \in Namespaces, NEW g \in Grantees, NEW right \in Rights, Exists(g),
           SharesBecome(onNamespace, onNamespace', n, g, right),
           UNCHANGED <<users, owner, list, team, onList, ids>>
    PROVE  TeamsSound'
<1> TypeOK BY DEF TeamsSound
<1>1. n \in 1..(nextNamespace - 1)
  BY TypeOKParts DEF OwnerOK
<1>2. /\ OnNamespaceOK'
      /\ DOMAIN onNamespace' \subseteq DOMAIN onNamespace \union {<<n, g>>}
  <2>1. /\ onNamespace' \in [DOMAIN onNamespace' -> Rights]
        /\ DOMAIN onNamespace' \subseteq (1..(nextNamespace - 1)) \X Grantees
        /\ DOMAIN onNamespace' \subseteq DOMAIN onNamespace \union {<<n, g>>}
    BY <1>1, TypeOKParts, SharesStayTyped DEF OnNamespaceOK
  <2> QED BY <2>1 DEF OnNamespaceOK, ids, Grantees
<1>3. OwnerOK' /\ ListOK' /\ TeamOK' /\ OnListOK'
  BY TypeOKParts DEF OwnerOK, ListOK, TeamOK, OnListOK, Namespaces, Lists, Teams, Grantees, ids
<1>4. TypeOK'
  BY <1>2, <1>3, TypeOKParts, TypeOKPartsNext DEF IdsOK, ids
<1>5. NoShareOfDeletedTeam'
  BY <1>2, GranteeExists DEF TeamsSound, NoShareOfDeletedTeam, Teams
<1> QED BY <1>4, <1>5 DEF TeamsSound, TeamNeverEmpty, Teams

LEMMA OnListChangeKeepsInv ==
    ASSUME TeamsSound, NEW l \in Lists, NEW g \in Grantees, NEW right \in Rights, Exists(g),
           SharesBecome(onList, onList', l, g, right),
           UNCHANGED <<users, owner, list, team, onNamespace, ids>>
    PROVE  TeamsSound'
<1> TypeOK BY DEF TeamsSound
<1>1. l \in 1..(nextList - 1)
  BY TypeOKParts DEF ListOK
<1>2. /\ OnListOK'
      /\ DOMAIN onList' \subseteq DOMAIN onList \union {<<l, g>>}
  <2>1. /\ onList' \in [DOMAIN onList' -> Rights]
        /\ DOMAIN onList' \subseteq (1..(nextList - 1)) \X Grantees
        /\ DOMAIN onList' \subseteq DOMAIN onList \union {<<l, g>>}
    BY <1>1, TypeOKParts, SharesStayTyped DEF OnListOK
  <2> QED BY <2>1 DEF OnListOK, ids, Grantees
<1>3. OwnerOK' /\ ListOK' /\ TeamOK' /\ OnNamespaceOK'
  BY TypeOKParts DEF OwnerOK, ListOK, TeamOK, OnNamespaceOK, Namespaces, Lists, Teams, Grantees, ids
<1>4. TypeOK'
  BY <1>2, <1>3, TypeOKParts, TypeOKPartsNext DEF IdsOK, ids
<1>5. NoShareOfDeletedTeam'
  BY <1>2, GranteeExists DEF TeamsSound, NoShareOfDeletedTeam, Teams
<1> QED BY <1>4, <1>5 DEF TeamsSound, TeamNeverEmpty, Teams

LEMMA ShareRequestKeepsInv ==
    ASSUME TeamsSound, NEW d \in users, ShareRequest(d) PROVE TeamsSound'
<1>1. GivenRights \subseteq Rights /\ RightRead \in Rights
  BY ConstantsAssumption DEF Rights
<1>2. CASE \E n \in Namespaces, g \in Grantees :
             \/ \E right \in GivenRights :
                   ShareNamespace(d, n, g, right) \/ UpdateNamespaceShare(d, n, g, right)
             \/ UnshareNamespace(d, n, g)
  <2>1. PICK n \in Namespaces, g \in Grantees, right \in Rights :
           \/ ShareNamespace(d, n, g, right) \/ UpdateNamespaceShare(d, n, g, right)
           \/ UnshareNamespace(d, n, g)
    BY <1>1, <1>2
  <2>2. Exists(g) /\ SharesBecome(onNamespace, onNamespace', n, g, right)
    BY <2>1 DEF ShareNamespace, UpdateNamespaceShare, UnshareNamespace, SharesBecome
  <2>3. UNCHANGED <<users, owner, list, team, onList, ids>>
    BY <2>1 DEF ShareNamespace, UpdateNamespaceShare, UnshareNamespace
  <2> QED BY <2>2, <2>3, OnNamespaceChangeKeepsInv
<1>3. CASE \E l \in Lists, g \in Grantees :
             \/ \E right \in GivenRights :
                   ShareList(d, l, g, right) \/ UpdateListShare(d, l, g, right)
             \/ UnshareList(d, l, g)
  <2>1. PICK l \in Lists, g \in Grantees, right \in Rights :
           \/ ShareList(d, l, g, right) \/ UpdateListShare(d, l, g, right)
           \/ UnshareList(d, l, g)
    BY <1>1, <1>3
  <2>2. Exists(g) /\ SharesBecome(onList, onList', l, g, right)
    BY <2>1 DEF ShareList, UpdateListShare, UnshareList, SharesBecome
  <2>3. UNCHANGED <<users, owner, list, team, onNamespace, ids>>
    BY <2>1 DEF ShareList, UpdateListShare, UnshareList
  <2> QED BY <2>2, <2>3, OnListChangeKeepsInv
<1> QED BY <1>2, <1>3 DEF ShareRequest

-----------------------------------------------------------------------------
(* Teams *)

(* A step that changes members only. *)
LEMMA MembersChangeKeepsInv ==
    ASSUME TeamsSound, TeamOK', \A t \in Teams' : team'[t].members # {}, Teams' = Teams,
           UNCHANGED <<users, owner, list, onNamespace, onList, ids>>
    PROVE  TeamsSound'
<1> TypeOK BY DEF TeamsSound
<1>1. OwnerOK' /\ ListOK' /\ OnNamespaceOK' /\ OnListOK'
  BY TypeOKParts DEF OwnerOK, ListOK, OnNamespaceOK, OnListOK, Namespaces, Lists, Grantees, ids
<1>2. TypeOK'
  BY <1>1, TypeOKParts, TypeOKPartsNext DEF IdsOK, ids
<1> QED BY <1>2 DEF TeamsSound, NoShareOfDeletedTeam, TeamNeverEmpty

LEMMA AddMemberKeepsInv ==
    ASSUME TeamsSound, NEW d \in users, NEW t \in Teams, NEW u \in Users, AddMember(d, t, u)
    PROVE  TeamsSound'
<1> TypeOK BY DEF TeamsSound
<1>1. TeamOK' /\ Teams' = Teams /\ \A s \in Teams' : team'[s].members # {}
  BY TypeOKParts DEF AddMember, TeamOK, Teams, TeamRow, TeamsSound, TeamNeverEmpty, ids
<1> QED BY <1>1, MembersChangeKeepsInv DEF AddMember

LEMMA ToggleAdminKeepsInv ==
    ASSUME TeamsSound, NEW d \in users, NEW t \in Teams, NEW u \in Users, ToggleAdmin(d, t, u)
    PROVE  TeamsSound'
<1> TypeOK BY DEF TeamsSound
<1>1. TeamOK' /\ Teams' = Teams /\ \A s \in Teams' : team'[s].members # {}
  BY TypeOKParts DEF ToggleAdmin, TeamOK, Teams, TeamRow, TeamsSound, TeamNeverEmpty, ids
<1> QED BY <1>1, MembersChangeKeepsInv DEF ToggleAdmin

LEMMA RemoveMemberKeepsInv ==
    ASSUME TeamsSound, NEW d \in users, NEW t \in Teams, NEW u \in Users, RemoveMember(d, t, u)
    PROVE  TeamsSound'
<1> TypeOK BY DEF TeamsSound
<1>1. TeamOK' /\ Teams' = Teams
  BY TypeOKParts DEF RemoveMember, TeamOK, Teams, TeamRow, ids
<1>2. team[t].members # {} /\ team[t].members # {u}
  BY FS_Singleton DEF RemoveMember, TeamsSound, TeamNeverEmpty
<1>3. \A s \in Teams' : team'[s].members # {}
  BY <1>2, TypeOKParts DEF RemoveMember, TeamOK, Teams, TeamRow, TeamsSound, TeamNeverEmpty
<1> QED BY <1>1, <1>3, MembersChangeKeepsInv DEF RemoveMember

LEMMA CreateTeamKeepsInv ==
    ASSUME TeamsSound, NEW d \in users, CreateTeam(d) PROVE TeamsSound'
<1> USE DEF CreateTeam
<1> TypeOK BY DEF TeamsSound
<1>1. TeamOK'
  BY TypeOKParts DEF TeamOK, Teams, TeamRow, IdsOK
<1>2. OwnerOK' /\ ListOK' /\ OnNamespaceOK' /\ OnListOK'
  BY TypeOKParts DEF OwnerOK, ListOK, OnNamespaceOK, OnListOK, Namespaces, Lists, Grantees
<1>3. TypeOK'
  BY <1>1, <1>2, TypeOKParts, TypeOKPartsNext DEF IdsOK
<1>4. NoShareOfDeletedTeam' /\ TeamNeverEmpty'
  BY DEF TeamsSound, NoShareOfDeletedTeam, TeamNeverEmpty, Teams
<1> QED BY <1>3, <1>4 DEF TeamsSound

LEMMA DeleteTeamKeepsInv ==
    ASSUME TeamsSound, NEW d \in users, NEW t \in Teams, DeleteTeam(d, t) PROVE TeamsSound'
<1> USE DEF DeleteTeam, ids
<1> TypeOK BY DEF TeamsSound
<1>1. TeamOK'
  BY TypeOKParts DEF TeamOK, Teams, TeamRow, Restrict
<1>2. OnNamespaceOK' /\ OnListOK'
  BY TypeOKParts DEF OnNamespaceOK, OnListOK, NotOf, Restrict, Grantees
<1>3. OwnerOK' /\ ListOK'
  BY TypeOKParts DEF OwnerOK, ListOK, Namespaces, Lists
<1>4. TypeOK'
  BY <1>1, <1>2, <1>3, TypeOKParts, TypeOKPartsNext DEF IdsOK
<1>5. Teams' = Teams \ {t}
  BY DEF Teams, Restrict
<1>6. ASSUME NEW k \in DOMAIN onNamespace' \union DOMAIN onList', k[2][1] = "team"
      PROVE  k[2][2] \in Teams'
  <2>1. k \in DOMAIN onNamespace \union DOMAIN onList /\ k[2] # AsTeam(t)
    BY <1>6 DEF NotOf, Restrict
  <2>2. k[2][2] \in Teams
    BY <1>6, <2>1 DEF TeamsSound, NoShareOfDeletedTeam
  <2>3. k[2] \in Grantees
    BY <2>1, TypeOKParts DEF OnNamespaceOK, OnListOK
  <2>4. k[2][2] # t
    BY <1>6, <2>1, <2>3 DEF Grantees, AsUser, AsTeam
  <2> QED BY <1>5, <2>2, <2>4
<1>7. TeamNeverEmpty'
  BY <1>5 DEF TeamsSound, TeamNeverEmpty, Teams, Restrict
<1> QED BY <1>4, <1>6, <1>7 DEF TeamsSound, NoShareOfDeletedTeam

-----------------------------------------------------------------------------
(* The deletion of an account leaves teams and keeps the rows of the shares. *)
LEMMA DeleteUserKeepsInv ==
    ASSUME TeamsSound, NEW u \in users, DeleteUser(u) PROVE TeamsSound'
<1> TypeOK BY DEF TeamsSound
<1>1. OwnerOK' /\ ListOK'
  <2> DEFINE N == Namespaces \ Unshared(onNamespace, NamespacesOf(u))
             L == Lists \ Unshared(onList, ListsOf(u))
  <2>1. owner' = Restrict(owner, N) /\ list' = Restrict(list, L)
    BY DEF DeleteUser
  <2>2. UNCHANGED <<nextNamespace, nextList>>
    BY DEF DeleteUser, ids
  <2>3. N \in SUBSET Namespaces /\ L \in SUBSET Lists
    OBVIOUS
  <2> HIDE DEF N, L
  <2> QED BY <2>1, <2>2, <2>3, ContentGoesKeepsTypeOK
<1>2. PICK nHeirs, lHeirs :
         onNamespace' = Promote(onNamespace, nHeirs) /\ onList' = Promote(onList, lHeirs)
  BY DEF DeleteUser
<1>3. DOMAIN onNamespace' = DOMAIN onNamespace /\ DOMAIN onList' = DOMAIN onList
  BY <1>2 DEF Promote
<1>4. OnNamespaceOK' /\ OnListOK'
  BY <1>2, TypeOKParts DEF OnNamespaceOK, OnListOK, Promote, Rights, DeleteUser, ids, Grantees
<1>5. TeamOK' /\ IdsOK' /\ users' \subseteq Users
  BY TypeOKParts DEF DeleteUser, TeamOK, Teams, IdsOK, ids
<1>6. TypeOK'
  BY <1>1, <1>4, <1>5, TypeOKPartsNext
<1>7. Teams' = Teams /\ team' = team
  BY DEF DeleteUser, Teams
<1> QED BY <1>3, <1>6, <1>7 DEF TeamsSound, NoShareOfDeletedTeam, TeamNeverEmpty

-----------------------------------------------------------------------------
LEMMA NextKeepsInv == TeamsSound /\ [Next]_vars => TeamsSound'
<1> SUFFICES ASSUME TeamsSound, [Next]_vars PROVE TeamsSound'
  OBVIOUS
<1>1. ASSUME NEW d \in users, ContentRequest(d) PROVE TeamsSound'
  BY <1>1, CreateNamespaceKeepsInv, CreateListKeepsInv, MoveListKeepsInv, DeleteListKeepsInv,
     DeleteNamespaceKeepsInv DEF ContentRequest
<1>2. ASSUME NEW d \in users, TeamRequest(d) PROVE TeamsSound'
  BY <1>2, CreateTeamKeepsInv, DeleteTeamKeepsInv, AddMemberKeepsInv, RemoveMemberKeepsInv,
     ToggleAdminKeepsInv DEF TeamRequest
<1>3. CASE UNCHANGED vars
  BY <1>3 DEF vars, tables, ids, TeamsSound, TypeOK, NoShareOfDeletedTeam, TeamNeverEmpty, Namespaces,
     Lists, Teams, Grantees
<1> QED BY <1>1, <1>2, <1>3, ShareRequestKeepsInv, DeleteUserKeepsInv DEF Next

(* For any users, rights and shares, a deletion or a request to leave takes no team apart. *)
THEOREM TeamsStaySound == Spec => []TeamsSound
BY InitInv, NextKeepsInv, PTL DEF Spec

(* The tables keep their types for any users, rights, ids and numbers of shares. *)
THEOREM TypeCorrect == Spec => []TypeOK
<1>1. TeamsSound => TypeOK
  BY DEF TeamsSound
<1> QED BY <1>1, TeamsStaySound, PTL

(* No row of team_namespaces or team_lists outlives its team. *)
THEOREM SharesEndWithTheirTeam == Spec => []NoShareOfDeletedTeam
<1>1. TeamsSound => NoShareOfDeletedTeam
  BY DEF TeamsSound
<1> QED BY <1>1, TeamsStaySound, PTL

(* A team has a member for as long as it is there. *)
THEOREM TeamsKeepAMember == Spec => []TeamNeverEmpty
<1>1. TeamsSound => TeamNeverEmpty
  BY DEF TeamsSound
<1> QED BY <1>1, TeamsStaySound, PTL

-----------------------------------------------------------------------------
(* Only the deletion of an account changes the users. *)
LEMMA RequestsKeepUsers ==
    ASSUME NEW d, ContentRequest(d) \/ ShareRequest(d) \/ TeamRequest(d) PROVE users' = users
<1>1. CASE ContentRequest(d)
  BY <1>1 DEF ContentRequest, CreateNamespace, CreateList, MoveList, DeleteList, DeleteNamespace
<1>2. CASE ShareRequest(d)
  BY <1>2 DEF ShareRequest, ShareNamespace, UpdateNamespaceShare, UnshareNamespace,
     ShareList, UpdateListShare, UnshareList
<1>3. CASE TeamRequest(d)
  BY <1>3 DEF TeamRequest, CreateTeam, DeleteTeam, AddMember, RemoveMember, ToggleAdmin
<1> QED BY <1>1, <1>2, <1>3

(* The rights of others: what they are granted is a row that keeps the namespace, *)
(* and a right that is only ever raised; a namespace they own is seen by u only   *)
(* through such a row.                                                            *)
LEMMA DeleteUserLeavesOthers ==
    ASSUME TeamsSound, NEW u \in users, DeleteUser(u), NEW v \in users', NEW n \in Namespaces,
           NEW min \in Rights, NamespaceRight(v, n, min)
    PROVE  NamespaceRight(v, n, min)'
<1> TypeOK BY DEF TeamsSound
<1>1. v # u
  BY DEF DeleteUser
<1>2. Standing(v)' = Standing(v)
  BY DEF DeleteUser, Standing, TeamsOf, Teams
<1>3. ASSUME NEW w, NEW right, Granted(onNamespace, n, w, right)
      PROVE  RowsOf(onNamespace, n) # {}
  BY <1>3 DEF Granted, RowsOf
<1>4. n \notin Unshared(onNamespace, NamespacesOf(u))
  BY <1>1, <1>3 DEF NamespaceRight, Unshared, NamespacesOf
<1>5. n \in Namespaces' /\ owner'[n] = owner[n]
  BY <1>4 DEF DeleteUser, Restrict, Namespaces
<1>6. Granted(onNamespace, n, v, min) => Granted(onNamespace, n, v, min)'
  <2>1. PICK heirs : onNamespace' = Promote(onNamespace, heirs)
    BY DEF DeleteUser
  <2>2. /\ DOMAIN onNamespace' = DOMAIN onNamespace
        /\ \A k \in DOMAIN onNamespace : onNamespace[k] >= min => onNamespace'[k] >= min
    BY <2>1, TypeOKParts DEF Promote, OnNamespaceOK, Rights, RightRead, RightWrite, RightAdmin
  <2> QED BY <1>2, <2>2 DEF Granted
<1> QED BY <1>5, <1>6 DEF NamespaceRight

(* Whoever has a right on a namespace keeps it when another account is deleted. *)
THEOREM NamespacesSurviveForOthers == Spec => OthersKeepNamespaces
<1> DEFINE Step == Deleted # {} =>
                     \A v \in users', n \in Namespaces, min \in Rights :
                        NamespaceRight(v, n, min) => NamespaceRight(v, n, min)'
<1>1. TeamsSound /\ [Next]_vars => [Step]_vars
  <2> SUFFICES ASSUME TeamsSound, Next, Deleted # {} PROVE Step
    BY DEF vars
  <2>1. PICK u \in users : DeleteUser(u)
    BY RequestsKeepUsers DEF Next, Deleted
  <2> QED BY <2>1, DeleteUserLeavesOthers
<1>2. [][Step]_vars <=> OthersKeepNamespaces
  BY DEF OthersKeepNamespaces
<1> HIDE DEF Step
<1> QED BY <1>1, <1>2, TeamsStaySound, PTL DEF Spec

-----------------------------------------------------------------------------
(* Who gives rights *)

(* A right comes from a row that was there before, as high, or from the one row *)
(* that is written.                                                             *)
LEMMA GrantedComesFromRow ==
    ASSUME NEW old, NEW new, NEW x, NEW g, NEW right, SharesBecome(old, new, x, g, right),
           NEW y, NEW h, NEW min, <<y, h>> \in DOMAIN new, new[<<y, h>>] >= min, y # x
    PROVE  <<y, h>> \in DOMAIN old /\ old[<<y, h>>] >= min
<1>1. <<y, h>> # <<x, g>>
  OBVIOUS
<1>2. CASE new = With(old, x, g, right)
  BY <1>1, <1>2 DEF With
<1>3. CASE <<x, g>> \in DOMAIN old /\ new = [old EXCEPT ![<<x, g>>] = right]
  BY <1>1, <1>3
<1>4. CASE new = Restrict(old, DOMAIN old \ {<<x, g>>})
  BY <1>4 DEF Restrict
<1> QED BY <1>2, <1>3, <1>4 DEF SharesBecome

(* A share of a namespace changes rights on its own lists only. *)
LEMMA NamespaceSharesGiveOwnRights ==
    ASSUME NEW n, NEW g, NEW right, SharesBecome(onNamespace, onNamespace', n, g, right),
           UNCHANGED <<users, owner, list, team, onList, ids>>,
           NEW u, NEW l, NEW min, ListRight(u, l, min)', ~ListRight(u, l, min)
    PROVE  l \in Lists /\ list[l].namespace = n
<1>1. Standing(u)' = Standing(u) /\ Lists' = Lists /\ Namespaces' = Namespaces
  BY DEF Standing, TeamsOf, Teams, Lists, Namespaces
<1>2. l \in Lists /\ Granted(onNamespace, list[l].namespace, u, min)'
                 /\ ~Granted(onNamespace, list[l].namespace, u, min)
  BY <1>1 DEF ListRight, Granted
<1>3. PICK h \in Standing(u) :
         /\ <<list[l].namespace, h>> \in DOMAIN onNamespace'
         /\ onNamespace'[<<list[l].namespace, h>>] >= min
  BY <1>1, <1>2 DEF Granted
<1> QED BY <1>2, <1>3, GrantedComesFromRow DEF Granted

LEMMA ListSharesGiveOwnRights ==
    ASSUME NEW x, NEW g, NEW right, SharesBecome(onList, onList', x, g, right),
           UNCHANGED <<users, owner, list, team, onNamespace, ids>>,
           NEW u, NEW l, NEW min, ListRight(u, l, min)', ~ListRight(u, l, min)
    PROVE  l = x
<1>1. Standing(u)' = Standing(u) /\ Lists' = Lists /\ Namespaces' = Namespaces
  BY DEF Standing, TeamsOf, Teams, Lists, Namespaces
<1>2. Granted(onList, l, u, min)' /\ ~Granted(onList, l, u, min)
  BY <1>1 DEF ListRight, Granted
<1>3. PICK h \in Standing(u) : <<l, h>> \in DOMAIN onList' /\ onList'[<<l, h>>] >= min
  BY <1>1, <1>2 DEF Granted
<1> QED BY <1>2, <1>3, GrantedComesFromRow DEF Granted

(* The admins of a namespace are those of its lists. *)
LEMMA NamespaceAdminOfLists ==
    ASSUME NEW d, NEW l \in Lists, NamespaceRight(d, list[l].namespace, RightAdmin)
    PROVE  ListRight(d, l, RightAdmin)
BY DEF NamespaceRight, ListRight

LEMMA ShareRequestByAdmin ==
    ASSUME NEW d, ShareRequest(d), NEW u, NEW l, NEW min,
           ListRight(u, l, min)', ~ListRight(u, l, min)
    PROVE  ListRight(d, l, RightAdmin)
<1>1. CASE \E n \in Namespaces, g \in Grantees :
             \/ \E right \in GivenRights :
                   ShareNamespace(d, n, g, right) \/ UpdateNamespaceShare(d, n, g, right)
             \/ UnshareNamespace(d, n, g)
  <2>1. PICK n, g, right : \/ ShareNamespace(d, n, g, right) \/ UpdateNamespaceShare(d, n, g, right)
                           \/ UnshareNamespace(d, n, g)
    BY <1>1
  <2>2. /\ NamespaceRight(d, n, RightAdmin)
        /\ SharesBecome(onNamespace, onNamespace', n, g, right)
        /\ UNCHANGED <<users, owner, list, team, onList, ids>>
    BY <2>1 DEF ShareNamespace, UpdateNamespaceShare, UnshareNamespace, SharesBecome
  <2> QED BY <2>2, NamespaceSharesGiveOwnRights, NamespaceAdminOfLists
<1>2. CASE \E x \in Lists, g \in Grantees :
             \/ \E right \in GivenRights :
                   ShareList(d, x, g, right) \/ UpdateListShare(d, x, g, right)
             \/ UnshareList(d, x, g)
  <2>1. PICK x, g, right : \/ ShareList(d, x, g, right) \/ UpdateListShare(d, x, g, right)
                           \/ UnshareList(d, x, g)
    BY <1>2
  <2>2. /\ ListRight(d, x, RightAdmin)
        /\ SharesBecome(onList, onList', x, g, right)
        /\ UNCHANGED <<users, owner, list, team, onNamespace, ids>>
    BY <2>1 DEF ShareList, UpdateListShare, UnshareList, SharesBecome
  <2> QED BY <2>2, ListSharesGiveOwnRights
<1> QED BY <1>1, <1>2 DEF ShareRequest

(* Nobody gets a right on a list, directly, by its namespace or by a team, through *)
(* a request on shares of one who is not its admin (list_users.go, list_team.go,    *)
(* namespace_users.go, namespace_team.go).                                         *)
THEOREM RightsComeFromAdmins == Spec => OnlyAdminsGiveRights
<1> DEFINE Step == \A u \in Users, l \in Lists, min \in Rights :
                     ListRight(u, l, min)' /\ ~ListRight(u, l, min) =>
                        \A d \in users : ShareRequest(d) => ListRight(d, l, RightAdmin)
<1>1. [Next]_vars => [Step]_vars
  BY ShareRequestByAdmin
<1>2. [][Step]_vars <=> OnlyAdminsGiveRights
  BY DEF OnlyAdminsGiveRights
<1> HIDE DEF Step
<1> QED BY <1>1, <1>2, PTL DEF Spec

-----------------------------------------------------------------------------
(* Who inherits *)

(* Of what is shared, the heirs and the rows that are admin's already leave none *)
(* without an admin.                                                             *)
LEMMA PromotionLeavesAdmin ==
    ASSUME NEW shares, NEW xs, NEW heirs \in Heirs(shares, xs),
           NEW x \in xs, RowsOf(shares, x) # {}
    PROVE  \E k \in RowsOf(Promote(shares, heirs), x) : Promote(shares, heirs)[k] = RightAdmin
<1>1. RowsOf(Promote(shares, heirs), x) = RowsOf(shares, x)
  BY DEF RowsOf, Promote
<1>2. ASSUME NEW k \in RowsOf(shares, x), shares[k] = RightAdmin \/ k \in heirs
      PROVE  Promote(shares, heirs)[k] = RightAdmin
  BY <1>2 DEF Promote, RowsOf
<1>3. \/ \E k \in RowsOf(shares, x) : shares[k] = RightAdmin
      \/ Candidates(shares, x) # {} /\ Candidates(shares, x) \subseteq RowsOf(shares, x)
  BY DEF Candidates
<1>4. CASE Candidates(shares, x) # {} /\ Candidates(shares, x) \subseteq RowsOf(shares, x)
  <2>1. Cardinality(heirs \intersect Candidates(shares, x)) = 1
    BY <1>4 DEF Heirs
  <2>2. heirs \intersect Candidates(shares, x) # {}
    BY <2>1, FS_EmptySet
  <2> QED BY <1>1, <1>2, <1>4, <2>2
<1> QED BY <1>1, <1>2, <1>3, <1>4

LEMMA DeleteUserLeavesAdmins ==
    ASSUME NEW u \in users, DeleteUser(u)
    PROVE  /\ \A n \in NamespacesOf(u) \intersect Namespaces' :
                 \E k \in RowsOf(onNamespace', n) : onNamespace'[k] = RightAdmin
           /\ \A l \in ListsOf(u) \intersect Lists' :
                 \E k \in RowsOf(onList', l) : onList'[k] = RightAdmin
<1>1. ASSUME NEW n \in NamespacesOf(u) \intersect Namespaces'
      PROVE  \E k \in RowsOf(onNamespace', n) : onNamespace'[k] = RightAdmin
  <2>1. RowsOf(onNamespace, n) # {}
    BY DEF DeleteUser, Namespaces, Restrict, Unshared
  <2>2. PICK heirs \in Heirs(onNamespace, NamespacesOf(u)) : onNamespace' = Promote(onNamespace, heirs)
    BY DEF DeleteUser
  <2> QED BY <2>1, <2>2, PromotionLeavesAdmin
<1>2. ASSUME NEW l \in ListsOf(u) \intersect Lists'
      PROVE  \E k \in RowsOf(onList', l) : onList'[k] = RightAdmin
  <2>1. RowsOf(onList, l) # {}
    BY DEF DeleteUser, Lists, Restrict, Unshared
  <2>2. PICK heirs \in Heirs(onList, ListsOf(u)) : onList' = Promote(onList, heirs)
    BY DEF DeleteUser
  <2> QED BY <2>1, <2>2, PromotionLeavesAdmin
<1> QED BY <1>1, <1>2

(* Whatever a deleted user could see and others still can has an admin, whichever *)
(* rows the database returned first (user_delete.go).                             *)
THEOREM KeptThingsHaveAnAdmin == Spec => KeptHasAdmin
<1> DEFINE Step == \A u \in Deleted :
                     /\ \A n \in NamespacesOf(u) \intersect Namespaces' :
                           \E k \in RowsOf(onNamespace', n) : onNamespace'[k] = RightAdmin
                     /\ \A l \in ListsOf(u) \intersect Lists' :
                           \E k \in RowsOf(onList', l) : onList'[k] = RightAdmin
<1>1. [Next]_vars => [Step]_vars
  <2> SUFFICES ASSUME Next, NEW v \in Deleted PROVE Step
    BY DEF vars
  <2>1. PICK u \in users : DeleteUser(u)
    BY RequestsKeepUsers DEF Next, Deleted
  <2>2. Deleted = {u}
    BY <2>1 DEF Deleted, DeleteUser
  <2> QED BY <2>1, <2>2, DeleteUserLeavesAdmins
<1>2. [][Step]_vars <=> KeptHasAdmin
  BY DEF KeptHasAdmin
<1> HIDE DEF Step
<1> QED BY <1>1, <1>2, PTL DEF Spec

-----------------------------------------------------------------------------
(* The two queries of ReadAll find what checkRight allows to read, in any state of *)
(* the tables and not only in those that requests lead to.                         *)
THEOREM ShownIsReadable == Spec => []ShownIffReadable
<1>1. ShownIffReadable
  BY DEF ShownIffReadable, Shown, ListsOf, NamespacesOf, ListRight
<1> QED BY <1>1, PTL
=============================================================================
