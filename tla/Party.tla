------------------------------- MODULE Party -------------------------------
(***************************************************************************)
(* Parties (src/src/party.cpp and the handlers of game.cpp).  A Party is   *)
(* an object that its leader, its members and those it has invited point   *)
(* to, and that points back to them; it deletes itself when it has become  *)
(* empty.  Leaders leave, invited players join others or log out.          *)
(*                                                                         *)
(* The party scripts (onJoin, onLeave, onDisband) are disabled in          *)
(* data/events/events.xml; shared experience is not modelled.              *)
(***************************************************************************)
EXTENDS Naturals, Sequences, FiniteSets, SequencesExt

CONSTANTS
    Member,     \* the players
    PartyId,    \* the addresses of Party objects
    NoParty     \* the null pointer

\* There is memory for a party of every player.
ASSUME PartyConstants ==
    /\ NoParty \notin PartyId
    /\ IsFiniteSet(Member) /\ IsFiniteSet(PartyId)
    /\ Cardinality(Member) <= Cardinality(PartyId)

VARIABLES
    parties,    \* the live Party objects: leader, memberList, inviteList
    partyOf,    \* Player::party
    invitedTo,  \* Player::invitePartyList
    onlineMembers

partyVars == <<parties, partyOf, invitedTo, onlineMembers>>

Live == DOMAIN parties

PartyObject == [leader : Member, memberList : Seq(Member), inviteList : SUBSET Member]

TypeOKParty ==
    /\ Live \subseteq PartyId /\ parties \in [Live -> PartyObject]
    /\ partyOf \in [Member -> PartyId \cup {NoParty}]
    /\ invitedTo \in [Member -> SUBSET PartyId]
    /\ onlineMembers \subseteq Member

PartyInit ==
    /\ parties = [x \in {} |-> NoParty]
    /\ partyOf = [p \in Member |-> NoParty]
    /\ invitedTo = [p \in Member |-> {}]
    /\ onlineMembers = Member

\* The handlers are made of steps that change all of this in turn: a world is
\* the value of the three variables.
World == [parties |-> parties, partyOf |-> partyOf, invitedTo |-> invitedTo]

SetWorld(w) == /\ parties' = w.parties
              /\ partyOf' = w.partyOf
              /\ invitedTo' = w.invitedTo

IsEmpty(party) == party.memberList = <<>> /\ party.inviteList = {}

Without(f, x) == [y \in DOMAIN f \ {x} |-> f[y]]

\* memberList.erase of what std::find has found; nobody is in the list twice.
Erase(s, p) ==
    IF p \in ToSet(s) THEN RemoveAt(s, CHOOSE i \in DOMAIN s : s[i] = p) ELSE s

-----------------------------------------------------------------------------
(* The operations of a Party *)

Disband(w, x) ==
    LET party == w.parties[x]
    IN  [w EXCEPT !.parties = Without(@, x),
                  !.invitedTo = [p \in Member |->
                      IF p \in party.inviteList THEN @[p] \ {x} ELSE @[p]],
                  !.partyOf = [p \in Member |->
                      IF p = party.leader \/ p \in ToSet(party.memberList) THEN NoParty ELSE @[p]]]

RemoveInvite(w, x, p) ==
    LET removed == [w EXCEPT !.parties[x].inviteList = @ \ {p},
                             !.invitedTo[p] = @ \ {x}]
    IN  IF p \notin w.parties[x].inviteList THEN w
        ELSE IF IsEmpty(removed.parties[x]) THEN Disband(removed, x) ELSE removed

\* The old leader becomes the first of the members.
PassPartyLeadership(w, x, p) ==
    IF p = w.parties[x].leader \/ w.partyOf[p] # x
    THEN w
    ELSE [w EXCEPT !.parties[x].leader = p,
                   !.parties[x].memberList =
                       <<w.parties[x].leader>> \o Erase(@, p)]

\* The rest of leaveParty, when the leadership is settled: missingLeader if it is still p's.
Left(w, x, p) ==
    LET left == [w EXCEPT !.parties[x].memberList = Erase(@, p), !.partyOf[p] = NoParty]
    IN  IF p = w.parties[x].leader \/ IsEmpty(left.parties[x]) THEN Disband(left, x) ELSE left

LeavePartyEarly(w, x, p) ==
    LET party == w.parties[x]
    IN  IF party.leader # p \/ Len(party.memberList) <= 1 THEN Left(w, x, p)
        ELSE Left(PassPartyLeadership(w, x, Head(party.memberList)), x, p)

LeaveParty(w, x, p) ==
    LET party == w.parties[x]
    IN  IF \/ party.leader # p \/ party.memberList = <<>>
           \/ Len(party.memberList) = 1 /\ party.inviteList = {}
        THEN Left(w, x, p)
        ELSE Left(PassPartyLeadership(w, x, Head(party.memberList)), x, p)

InvitePlayer(w, x, p) ==
    [w EXCEPT !.parties[x].inviteList = @ \cup {p}, !.invitedTo[p] = @ \cup {x}]

JoinParty(w, x, p) ==
    [w EXCEPT !.parties[x].inviteList = @ \ {p},
              !.parties[x].memberList = Append(@, p),
              !.partyOf[p] = x,
              !.invitedTo[p] = @ \ {x}]

\* Player::isInviting
IsInviting(leader, p) ==
    /\ partyOf[leader] # NoParty
    /\ parties[partyOf[leader]].leader = leader
    /\ p \in parties[partyOf[leader]].inviteList

Leads(p) == partyOf[p] # NoParty /\ parties[partyOf[p]].leader = p

-----------------------------------------------------------------------------
(* The handlers *)

NewParty(w, p) ==
    LET x == CHOOSE y \in PartyId : y \notin DOMAIN w.parties
    IN  [w EXCEPT !.parties = [y \in DOMAIN @ \cup {x} |->
                        IF y = x THEN [leader |-> p, memberList |-> <<>>, inviteList |-> {}]
                        ELSE @[y]],
                  !.partyOf[p] = x]

PlayerInviteToParty ==
    \E p, q \in onlineMembers :
        /\ p # q /\ ~IsInviting(q, p) /\ partyOf[q] = NoParty
        /\ \/ /\ partyOf[p] = NoParty
              /\ LET w == NewParty(World, p) IN SetWorld(InvitePlayer(w, w.partyOf[p], q))
           \/ /\ Leads(p) /\ ~IsInviting(p, q)
              /\ SetWorld(InvitePlayer(World, partyOf[p], q))
        /\ UNCHANGED onlineMembers

PlayerJoinParty ==
    \E p, leader \in onlineMembers :
        /\ IsInviting(leader, p) /\ partyOf[p] = NoParty
        /\ SetWorld(JoinParty(World, partyOf[leader], p))
        /\ UNCHANGED onlineMembers

PlayerRevokePartyInvitation ==
    \E p, q \in onlineMembers :
        /\ Leads(p) /\ IsInviting(p, q)
        /\ SetWorld(RemoveInvite(World, partyOf[p], q))
        /\ UNCHANGED onlineMembers

\* isPartner: both are in the same party.
PlayerPassPartyLeadership ==
    \E p, q \in onlineMembers :
        /\ Leads(p) /\ p # q /\ partyOf[q] = partyOf[p]
        /\ SetWorld(PassPartyLeadership(World, partyOf[p], q))
        /\ UNCHANGED onlineMembers

PlayerLeaveParty ==
    \E p \in onlineMembers :
        /\ partyOf[p] # NoParty
        /\ SetWorld(LeaveParty(World, partyOf[p], p))
        /\ UNCHANGED onlineMembers

\* Player::clearPartyInvitations: each party it was invited to forgets it, and those
\* that wait for nobody else are disbanded.  They have no members, so that the order
\* does not matter; the list itself is only cleared in the end.
ClearPartyInvitations(w, p) ==
    LET inviting == {x \in w.invitedTo[p] : p \in w.parties[x].inviteList}
        forgets(x) == [w.parties[x] EXCEPT !.inviteList = @ \ {p}]
        disbanded == {x \in inviting : IsEmpty(forgets(x))}
    IN  [parties |-> [x \in DOMAIN w.parties \ disbanded |->
                         IF x \in inviting THEN forgets(x) ELSE w.parties[x]],
         partyOf |-> [q \in Member |->
                         IF \E x \in disbanded : q = w.parties[x].leader THEN NoParty
                         ELSE w.partyOf[q]],
         invitedTo |-> [w.invitedTo EXCEPT ![p] = {}]]

\* Player::onRemoveCreature, as far as parties go.
OnRemoveCreature(p) ==
    LET w == ClearPartyInvitations(World, p)
    IN  IF w.partyOf[p] # NoParty THEN LeaveParty(w, w.partyOf[p], p) ELSE w

PartyLogout ==
    \E p \in onlineMembers :
        /\ SetWorld(OnRemoveCreature(p))
        /\ onlineMembers' = onlineMembers \ {p}

PartyLogin ==
    \E p \in Member \ onlineMembers :
        /\ onlineMembers' = onlineMembers \cup {p}
        /\ UNCHANGED <<parties, partyOf, invitedTo>>

PartyNext == \/ PlayerInviteToParty \/ PlayerJoinParty \/ PlayerRevokePartyInvitation
             \/ PlayerPassPartyLeadership \/ PlayerLeaveParty \/ PartyLogout \/ PartyLogin

PartySpec == PartyInit /\ [][PartyNext]_partyVars

-----------------------------------------------------------------------------
(* Properties *)

People(x) == {parties[x].leader} \cup ToSet(parties[x].memberList)

\* The pointers agree in both directions and none dangles: whoever points to a
\* party is in it or invited by it and the other way round, everybody it knows
\* is online, nobody is in it twice, and no party is kept that has nobody but
\* its leader.
PartyLinks ==
    /\ TypeOKParty
    /\ \A p \in Member : /\ partyOf[p] # NoParty => partyOf[p] \in Live
                         /\ invitedTo[p] \subseteq Live
    /\ \A x \in Live :
         /\ People(x) = {p \in Member : partyOf[p] = x}
         /\ parties[x].inviteList = {p \in Member : x \in invitedTo[p]}
         /\ People(x) \cup parties[x].inviteList \subseteq onlineMembers
         /\ IsInjective(<<parties[x].leader>> \o parties[x].memberList)
         /\ People(x) \cap parties[x].inviteList = {}
         /\ ~IsEmpty(parties[x])

\* A party is given up only when its leader would be left with nobody to wait for,
\* and one that goes on without its leader is led by its oldest member.
LeaderFollowed ==
    \A x \in Live :
        LET party == parties[x]
        IN  IF x \notin DOMAIN parties'
            THEN \/ party.memberList = <<>>
                 \/ Len(party.memberList) = 1 /\ party.inviteList = {}
            ELSE partyOf'[party.leader] # x => parties'[x].leader = Head(party.memberList)

\* All that holds together: parties are sound, and go on as long as they have a purpose.
PartyGoesOn == []PartyLinks /\ [][LeaderFollowed]_partyVars
=============================================================================
