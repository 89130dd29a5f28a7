-------------------------------- MODULE Chat --------------------------------
(***************************************************************************)
(* Chat channels (chat.cpp): those of the server, those of guilds and      *)
(* parties, and the private ones that premium players open and invite      *)
(* others to.  A channel holds pointers to the Player objects of its users *)
(* and of those who are invited; players log out, leave their party or     *)
(* guild, are excluded, and the channels of the server are loaded anew.    *)
(***************************************************************************)
EXTENDS Naturals, FiniteSets

CONSTANTS
    Talker,
    Subscriber,     \* those with a premium account
    Public,         \* the channels of the server
    Circle,         \* the keys of guildChannels and partyChannels: ids of guilds, and
                    \* addresses of parties, which are used again
    PrivateId,      \* 100 .. 9999
    NoCircle

ASSUME ChatConstants ==
    /\ Subscriber \subseteq Talker /\ PrivateId \subseteq Nat
    /\ NoCircle \notin Circle
    /\ Public \cap PrivateId = {}   \* normalChannels and privateChannels are two maps

VARIABLES
    users,      \* of each channel there is
    invites,    \* of each private channel
    owner,      \* of each private channel
    circle,     \* Player::getParty (or getGuild)
    banned,     \* whom the script of a public channel does not let in (canJoin)
    chatting    \* the players online

chatVars == <<users, invites, owner, circle, banned, chatting>>

Rooms == DOMAIN users
Private == DOMAIN owner

ChatInit ==
    /\ users = [c \in Public |-> {}]
    /\ invites = [c \in {} |-> {}]
    /\ owner = [c \in {} |-> 0]
    /\ circle = [p \in Talker |-> NoCircle]
    /\ banned = [c \in Public |-> {}]
    /\ chatting = Talker

Extended(f, c, x) == [d \in DOMAIN f \cup {c} |-> IF d = c THEN x ELSE f[d]]
Only(f, S) == [d \in S |-> f[d]]

IsInvitedTo(c, p) == p = owner[c] \/ p \in invites[c]

\* Chat::getChannel: which channel an id means depends on who asks.
GetChannel(p, c) ==
    /\ c \in Rooms
    /\ c \in Public => p \notin banned[c]
    /\ c \in Circle => circle[p] = c
    /\ c \in Private => IsInvitedTo(c, p)

\* deleteChannel, of private channels
ChannelsDeleted(S) ==
    /\ users' = Only(users, Rooms \ S)
    /\ invites' = Only(invites, Private \ S)
    /\ owner' = Only(owner, Private \ S)

-----------------------------------------------------------------------------
(* The handlers *)

\* Game::playerCreatePrivateChannel: one for each, with the first free id.
PlayerCreatePrivateChannel(p) ==
    /\ p \in chatting \cap Subscriber
    /\ \A c \in Private : owner[c] # p
    /\ PrivateId \ Private # {}
    /\ LET c == CHOOSE i \in PrivateId \ Private : \A j \in PrivateId \ Private : i <= j
       IN  /\ users' = Extended(users, c, {p})
           /\ invites' = Extended(invites, c, {})
           /\ owner' = Extended(owner, c, p)
    /\ UNCHANGED <<circle, banned, chatting>>

PlayerChannelInvite(p, q) ==
    /\ {p, q} \subseteq chatting /\ p # q
    /\ \E c \in Private : owner[c] = p /\ invites' = [invites EXCEPT ![c] = @ \cup {q}]
    /\ UNCHANGED <<users, owner, circle, banned, chatting>>

PlayerChannelExcludeInvite(p, q) ==
    /\ {p, q} \subseteq chatting /\ p # q
    /\ \E c \in Private :
          /\ owner[c] = p /\ q \in invites[c]
          /\ invites' = [invites EXCEPT ![c] = @ \ {q}]
    /\ UNCHANGED <<users, owner, circle, banned, chatting>>

PlayerChannelExclude(p, q) ==
    /\ {p, q} \subseteq chatting /\ p # q
    /\ \E c \in Private :
          /\ owner[c] = p /\ q \in invites[c]
          /\ invites' = [invites EXCEPT ![c] = @ \ {q}]
          /\ users' = [users EXCEPT ![c] = @ \ {q}]
    /\ UNCHANGED <<owner, circle, banned, chatting>>

\* Game::playerOpenChannel; the channel of a circle is made when one of it asks for
\* the list of channels.  The script of a public channel may refuse (onJoin).
PlayerOpenChannel(p, c) ==
    /\ p \in chatting
    /\ GetChannel(p, c) /\ p \notin users[c]
    /\ users' = [users EXCEPT ![c] = @ \cup {p}]
    /\ UNCHANGED <<invites, owner, circle, banned, chatting>>

GetChannelList(p) ==
    /\ p \in chatting /\ circle[p] # NoCircle /\ circle[p] \notin Rooms
    /\ users' = Extended(users, circle[p], {})
    /\ UNCHANGED <<invites, owner, circle, banned, chatting>>

\* Chat::removeUserFromChannel
PlayerCloseChannel(p, c) ==
    /\ p \in chatting
    /\ GetChannel(p, c) /\ p \in users[c]
    /\ IF c \in Private /\ owner[c] = p THEN ChannelsDeleted({c})
       ELSE /\ users' = [users EXCEPT ![c] = @ \ {p}]
            /\ UNCHANGED <<invites, owner>>
    /\ UNCHANGED <<circle, banned, chatting>>

JoinCircle(p, x) ==
    /\ p \in chatting /\ circle[p] = NoCircle
    /\ circle' = [circle EXCEPT ![p] = x]
    /\ UNCHANGED <<users, invites, owner, banned, chatting>>

\* The party is forgotten before its channel is closed (party.cpp:112, and 45 when it
\* disbands; for a guild player.cpp:4225): getChannel finds none, and he stays a user
\* of it.
LeaveCircle(p) ==
    /\ p \in chatting /\ circle[p] # NoCircle
    /\ circle' = [circle EXCEPT ![p] = NoCircle]
    /\ UNCHANGED <<users, invites, owner, banned, chatting>>

\* Chat::removeUserFromAllChannels
RemoveUserFromAllChannels(p) ==
    LET own == {c \in Private : owner[c] = p}
    IN  /\ users' = [c \in Rooms \ own |-> users[c] \ {p}]
        /\ invites' = [c \in Private \ own |-> invites[c] \ {p}]
        /\ owner' = Only(owner, Private \ own)

\* Player::onRemoveCreature: he has left his party by then, not his guild.
LogoutOf(p) ==
    /\ p \in chatting
    /\ chatting' = chatting \ {p}
    /\ RemoveUserFromAllChannels(p)
    /\ \E x \in {circle[p], NoCircle} : circle' = [circle EXCEPT ![p] = x]
    /\ UNCHANGED banned

LoginOf(p) ==
    /\ p \notin chatting
    /\ chatting' = chatting \cup {p}
    /\ UNCHANGED <<users, invites, owner, circle, banned>>

\* Chat::load of a channel there is: who has joined joins again, and may be refused;
\* the new script lets in whom it likes.
Load(c) ==
    /\ \E stay \in SUBSET users[c] : users' = [users EXCEPT ![c] = stay]
    /\ \E S \in SUBSET Talker : banned' = [banned EXCEPT ![c] = S]
    /\ UNCHANGED <<invites, owner, circle, chatting>>

ChatNext ==
    \/ \E p \in Talker :
          \/ PlayerCreatePrivateChannel(p) \/ GetChannelList(p)
          \/ LeaveCircle(p) \/ LogoutOf(p) \/ LoginOf(p)
          \/ \E q \in Talker : PlayerChannelInvite(p, q) \/ PlayerChannelExclude(p, q)
          \/ \E c \in Rooms : PlayerOpenChannel(p, c) \/ PlayerCloseChannel(p, c)
          \/ \E x \in Circle : JoinCircle(p, x)
    \/ \E c \in Public : Load(c)

ChatSpec == ChatInit /\ [][ChatNext]_chatVars

-----------------------------------------------------------------------------
(* Properties *)

\* talkToChannel reaches all users of a channel, through pointers: they are players
\* who are online, whatever they left open when they went.  A private channel is its
\* owner's, who has one and is in it; who hears it was invited and not excluded.
\* (Of the channel of a party or a guild that is not so: see LeaveCircle.)
ChannelsSound ==
    /\ \A c \in Rooms : users[c] \subseteq chatting
    /\ Private = DOMAIN invites /\ Private \subseteq Rooms
    /\ \A c \in Private :
          /\ invites[c] \subseteq chatting
          /\ owner[c] \in users[c]
          /\ \A p \in users[c] : IsInvitedTo(c, p)
          /\ \A d \in Private : owner[c] = owner[d] => c = d
=============================================================================
