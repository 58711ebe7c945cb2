---------------------------- MODULE MCDiscovery ----------------------------
\* One job whose owner named one chat, two chats, two names.
EXTENDS Discovery

MCSeedsOf == [j \in Jobs |-> {CHOOSE u \in Usernames : TRUE}]
MCJoinsOf == [j \in Jobs |-> 1]
=============================================================================
