------------------------------ MODULE MCMessaging ------------------------------
(* chat_service, call_service and notification_service, whose parts share no state: one at a time. *)
EXTENDS Chats, Messages, Listener, Calls, Notices, Devices, TLC

VARIABLES talkFocus   \* the part that a behaviour is about

messagingVars == <<talkFocus, chatVars, messageVars, listenerVars, callVars, noticeVars, deviceVars>>

MCUsers == {"ann", "mia", "carl", "dan", "eve"}
MCRole == [u \in MCUsers |-> CASE u = "ann" -> "admin" [] u = "mia" -> "manager"
                               [] u = "carl" -> "client" [] OTHER -> "driver"]
MCPairs == {<<"carl", "dan">>, <<"dan", "carl">>}
MCTeams == {{"mia"}, {"dan"}}
MCNotified == {"ann", "mia", "carl"}
MCStaff == {"ann", "mia"}
MCOwnerOf == <<"carl", "carl", "dan">>

MessagingSymmetry == Permutations(ConvIds) \cup Permutations(ChatRequests)

MessagingInit ==
    /\ talkFocus \in {"chats", "messages", "listener", "calls", "notices", "devices"}
    /\ ChatsInit /\ MessagesInit /\ ListenerInit /\ CallsInit /\ NoticesInit
    /\ DevicesInit

\* Everything but the part a behaviour is about stands still.
MessagingNext ==
    /\ UNCHANGED talkFocus
    /\ \/ talkFocus = "chats" /\ ChatsNext
          /\ UNCHANGED <<messageVars, listenerVars, callVars, noticeVars, deviceVars>>
       \/ talkFocus = "messages" /\ MessagesNext
          /\ UNCHANGED <<chatVars, listenerVars, callVars, noticeVars, deviceVars>>
       \/ talkFocus = "listener" /\ ListenerNext
          /\ UNCHANGED <<chatVars, messageVars, callVars, noticeVars, deviceVars>>
       \/ talkFocus = "calls" /\ CallsNext
          /\ UNCHANGED <<chatVars, messageVars, listenerVars, noticeVars, deviceVars>>
       \/ talkFocus = "notices" /\ NoticesNext
          /\ UNCHANGED <<chatVars, messageVars, listenerVars, callVars, deviceVars>>
       \/ talkFocus = "devices" /\ DevicesNext
          /\ UNCHANGED <<chatVars, messageVars, listenerVars, callVars, noticeVars>>

MessagingSpec == MessagingInit /\ [][MessagingNext]_messagingVars

\* The types of the six parts.
MessagingTypeOK == ChatsTypeOK /\ MessagesTypeOK /\ ListenerTypeOK /\ CallsTypeOK
                   /\ NoticesTypeOK /\ DevicesTypeOK

\* One chat for the same people, entered and seen by the same, and one read mark for a person.
TalkOK == ChatsOK /\ OneMarkEach

\* What a person is told, and on which phones.
ToldOK == NoticesOK /\ PhonesOK
=============================================================================
