----------------------------- MODULE DiscussApi -----------------------------
(* The endpoints of modules/discuss/api and their cache tags. What a call     *)
(* writes is what the discuss service does.                                   *)
EXTENDS ApiEndpoints

LOCAL D == "discuss"

MessageTag(id) == {<<"Message", id>>}

\* A tag without an id: only an invalidation without an id finds it.
AnyMessage == MessageTag("any")
EveryMessageTag ==
    AllRows("Message") \cup AnyMessage \cup MessageTag("CHANNEL") \cup MessageTag("THREAD")

MessageViews ==
    {View(D, "getMessages", AllRows("Message"), MessageTag("CHANNEL"), {}),
     View(D, "getMessagesBefore", Old("Message"), {}, {}),
     View(D, "getThreadReplies", AllRows("Message"), MessageTag("THREAD"), {}),
     View(D, "searchMessages", AllRows("Message"), AnyMessage, {})}

ChannelAndList == Old("Channel") \cup ListTag("Channel")

\* Sending counts the message in the channel; a reply names the messages only.
SendCalls ==
    {AlsoWriting(Call(D, "sendMessage", New("Message"),
                      MessageTag("CHANNEL") \cup ChannelAndList), Old("Channel")),
     AlsoWriting(Call(D, "sendMessageWithFiles", New("Message") \cup New("Attachment"),
                      MessageTag("CHANNEL") \cup ChannelAndList), Old("Channel")),
     AlsoWriting(Call(D, "sendReply", New("Message"), MessageTag("CHANNEL")),
                 Old("Message") \cup Old("Channel"))}

EditCalls ==
    {Call(D, name, Old("Message"), MessageTag("CHANNEL") \cup Old("Channel")) :
       name \in {"editMessage", "deleteMessage"}}
    \cup {Call(D, name, Old("Message"), MessageTag("CHANNEL")) :
            name \in {"addReaction", "removeReaction"}}

MarkChannelRead == Call(D, "markAsRead", Old("Channel"), ChannelAndList)

UnreadCount == View(D, "getUnreadCount", Old("Channel"), Old("Channel"), {})

DiscussMessages ==
    Table(MessageViews \cup {UnreadCount}, SendCalls \cup EditCalls \cup {MarkChannelRead})

\* The members of a channel are provided under the tag of the channel.
ChannelViews ==
    {ListView(D, "getChannels", "Channel"), DetailView(D, "getChannel", "Channel"),
     View(D, "getChannelMembers", AllRows("Member"), Old("Channel"), {})}

MemberCall(name, rows, tags) == AlsoWriting(Call(D, name, Old("Channel"), tags), rows)

ChannelCalls ==
    {CreateCall(D, "createChannel", "Channel"), CreateCall(D, "createDirectChannel", "Channel"),
     UpdateCall(D, "updateChannel", "Channel"), UpdateCall(D, "archiveChannel", "Channel"),
     Removing(Call(D, "deleteChannel", Old("Channel"), ListTag("Channel"))),
     MemberCall("addChannelMember", New("Member"), Old("Channel")),
     MemberCall("removeChannelMember", Old("Member"), Old("Channel")),
     MemberCall("leaveChannel", Old("Member"), ChannelAndList)}

DiscussChannels == Table(ChannelViews, ChannelCalls)

PresenceTag(id) == {<<"Presence", id>>}

\* Views of the presence of others show the user's own presence as well.
DiscussPresence ==
    Table({View(D, "getChannelPresence", Old("Presence"),
                PresenceTag("CHANNEL") \cup PresenceTag("any"), {}),
           View(D, "getUserPresence", Old("Presence"),
                PresenceTag("USER") \cup PresenceTag("any"), {}),
           View(D, "getMyPresence", Old("Presence"), PresenceTag("ME"), {})},
          {Call(D, "updateMyPresence", Old("Presence"), PresenceTag("ME"))})

\* The views of attachments provide no tags.
DiscussAttachments ==
    Table({View(D, name, Old("Attachment"), {}, {}) :
             name \in {"getAttachment", "getMessageAttachments", "getAttachmentDownloadUrl"}},
          {AlsoWriting(Removing(Call(D, "deleteAttachment", Old("Attachment"),
                                     EveryMessageTag)), Old("Message"))})

DiscussUsers == Table({View(D, "getUsers", Old("Colleague"), {}, {})}, {})

DiscussTable ==
    Merged({DiscussMessages, DiscussChannels, DiscussPresence, DiscussAttachments,
            DiscussUsers})
=============================================================================
