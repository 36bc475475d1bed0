------------------------------ MODULE Messages ------------------------------
(***************************************************************************)
(* Direct messages and what hangs on them (services/chat_service.py,       *)
(* chat_advancement_service.py and their routes).  The limit of thirty     *)
(* messages a minute lies beyond the requests of a behaviour and is left   *)
(* out; a text is the set of findings of its analysis.                     *)
(***************************************************************************)
EXTENDS Moderation

ChatTables == {"messages", "delivered", "chat_settings", "bookmarks",
               "scheduled_messages", "translations", "device_syncs", "backups",
               "galleries", "gallery_items", "transcriptions"}

Message == [id : Int, born : Nat, sender : Users \cup {None}, receiver : Users \cup {None},
            reactions : SUBSET Users, is_pinned : BOOLEAN, is_seen : BOOLEAN,
            edited : BOOLEAN]

NewMessage(u, w) == [id |-> Self, sender |-> u, receiver |-> w, reactions |-> {},
                     is_pinned |-> FALSE, is_seen |-> FALSE, edited |-> FALSE]

\* What tells w of a message of u over the sockets: the notification of the
\* service ("message"), which repeats the text, or the frame of the chat ("chat").
deliver(u, w, kind) ==
    Insert("delivered", [id |-> Self, from |-> u, to |-> w, kind |-> kind])

Conversation(u, w) ==
    {m \in store["messages"] : {m.sender, m.receiver} = {u, w}}

-----------------------------------------------------------------------------
(* Sending.                                                                 *)

Sendable(u, w, findings) ==
    /\ u # w
    /\ validate_user_can_send(u)
    /\ validate_content_with_ai(findings)
    /\ ~are_blocked(u, w)

\* What a message leaves in the transaction that the end of the request
\* commits, after its notification has been pushed.
Sent(u, w, findings) ==
    << {deliver(u, w, "message")},
       {Insert("messages", NewMessage(u, w)), notify(w, "message", u)}
       \cup analyze_content(findings) \cup _refresh_user_moderation(u) >>

\* The row is added and refreshed without a flush.
send_message(p, u, w, findings) ==
    Sendable(u, w, findings) /\ BeginRefreshed(p, Sent(u, w, findings))

send_media_message(p, u, w, findings) ==
    Sendable(u, w, findings) /\ Begin(p, Sent(u, w, findings))

\* Mutant: the gateway asks for the standing of the author and delivers.
GatewayUnasked(p, u, w, findings) ==
    /\ u # w /\ validate_user_can_send(u)
    /\ BeginRefreshed(p, << {deliver(u, w, "message")}, {deliver(u, w, "chat")} >>)

\* The session of the gateway is closed without a commit; the devices of the
\* author hear of the message, and the peer unless its author is shadow banned.
chat_websocket_message(p, u, w, findings) ==
    /\ Sendable(u, w, findings)
    /\ BeginRefreshed(p, << {deliver(u, w, "message")}, {deliver(u, u, "chat")} >>
                         \o (IF is_user_shadow_banned(u) THEN <<>>
                             ELSE << {deliver(u, w, "chat")} >>))

-----------------------------------------------------------------------------
(* Messages of a conversation.                                              *)

delete_message(p, u, m) ==
    m.sender = u /\ Begin(p, << {Delete("messages", m.id)} >>)

\* The change of a loaded message is refreshed away before it is flushed.
Change(p, m, cols) == BeginRefreshed(p, << Edit("messages", m, cols) >>)

update_message(p, u, m) == m.sender = u /\ Change(p, m, [edited |-> TRUE])
mark_message_as_seen(p, u, m) == m.receiver = u /\ Change(p, m, [is_seen |-> TRUE])
toggle_pin_message(p, m) == Change(p, m, [is_pinned |-> ~m.is_pinned])

toggle_message_reaction(p, u, m) ==
    Change(p, m, [reactions |-> IF u \in m.reactions THEN m.reactions \ {u}
                                ELSE m.reactions \cup {u}])

\* The source is not asked whether its author is blocked, the receiver is.
forward_message(p, u, m, receiver, findings) ==
    u \in {m.sender, m.receiver} /\ send_message(p, u, receiver, findings)

update_chat_settings(p, u, w, muted) ==
    LET settings == {s \in store["chat_settings"] : s.user = u /\ s.peer = w}
    IN  /\ u # w
        /\ \/ /\ settings = {}
              /\ BeginRefreshed(p, << {InsertUnique("chat_settings",
                     [id |-> Self, user |-> u, peer |-> w, is_muted |-> muted],
                     {"user", "peer"})} >>)
           \/ \E s \in settings :
                 BeginRefreshed(p, << Edit("chat_settings", s, [is_muted |-> muted]) >>)

-----------------------------------------------------------------------------
(* Chat routes: u writes to w, or about a message of u and w.               *)

create_message(p) ==
    \E u, w \in Users, findings \in Contents :
        \/ send_message(p, u, w, findings)
        \/ send_media_message(p, u, w, findings)

gateway_message(p) ==
    \E u, w \in Users, findings \in Contents : chat_websocket_message(p, u, w, findings)

\* The message is stored, then both sides are told.
create_media_message(p) ==
    \E u, w \in Users, findings \in Contents :
        /\ Sendable(u, w, findings)
        /\ Begin(p, << Head(Sent(u, w, findings)),
                       {deliver(u, u, "chat"), deliver(u, w, "chat")} >>
                    \o Tail(Sent(u, w, findings)))

\* A message is found by either of its two users.
_get_message_in_conversation(u) == {m \in store["messages"] : u \in {m.sender, m.receiver}}

delete_message_endpoint(p) ==
    \E u \in Users : \E m \in _get_message_in_conversation(u) :
        delete_message(p, u, m)
update_message_endpoint(p) ==
    \E u \in Users : \E m \in _get_message_in_conversation(u) :
        update_message(p, u, m)
mark_message_seen_endpoint(p) ==
    \E u \in Users : \E m \in _get_message_in_conversation(u) :
        mark_message_as_seen(p, u, m)
toggle_pin_message_endpoint(p) ==
    \E u \in Users : \E m \in _get_message_in_conversation(u) :
        toggle_pin_message(p, m)
toggle_message_reaction_endpoint(p) ==
    \E u \in Users : \E m \in _get_message_in_conversation(u) :
        toggle_message_reaction(p, u, m)
forward_message_endpoint(p) ==
    \E u, w \in Users, findings \in Contents :
        \E m \in _get_message_in_conversation(u) : forward_message(p, u, m, w, findings)
patch_chat_settings(p) ==
    \E u, w \in Users, muted \in BOOLEAN : update_chat_settings(p, u, w, muted)

ChatRoutes(p) ==
    \/ create_message(p)
    \/ gateway_message(p)
    \/ create_media_message(p)
    \/ delete_message_endpoint(p)
    \/ update_message_endpoint(p)
    \/ mark_message_seen_endpoint(p)
    \/ toggle_pin_message_endpoint(p)
    \/ toggle_message_reaction_endpoint(p)
    \/ forward_message_endpoint(p)
    \/ patch_chat_settings(p)

-----------------------------------------------------------------------------
(* Chat extras: services of chat_advancement_service.py.                    *)

Bookmarks(u, m) == {b \in store["bookmarks"] : b.user = u /\ b.message = m.id}

bookmark_message(p, u, m) ==
    /\ Bookmarks(u, m) = {}
    /\ Begin(p, << {InsertUnique("bookmarks",
                                 [id |-> Self, user |-> u, message |-> m.id],
                                 {"user", "message"})} >>)

unbookmark_message(p, u, m) ==
    \E b \in Bookmarks(u, m) : Begin(p, << {Delete("bookmarks", b.id)} >>)

\* Neither a block nor the standing of the account is asked, and nothing ever
\* sends the message.
schedule_message(p, u, w) ==
    Begin(p, << {Insert("scheduled_messages",
                        [id |-> Self, sender |-> u, receiver |-> w,
                         status |-> "scheduled"])} >>)

cancel_scheduled_message(p, u, s) ==
    /\ s.sender = u /\ s.status = "scheduled"
    /\ Begin(p, << {Delete("scheduled_messages", s.id)} >>)

\* A message that is not there, deleted or never sent, is made up: an empty
\* one of the user to itself, or of nobody known.
_ensure_message_exists(i, user) ==
    IF \E m \in store["messages"] : m.id = i THEN {}
    ELSE {InsertUnique("messages", [NewMessage(user, user) EXCEPT !.id = i], {"id"})}

translate_message(p, i, language) ==
    /\ ~ \E t \in store["translations"] : t.message = i /\ t.language = language
    /\ Begin(p, << {InsertUnique("translations",
                                 [id |-> Self, message |-> i, language |-> language],
                                 {"message", "language"})}
                   \cup _ensure_message_exists(i, None) >>)

sync_message_to_device(p, u, device, i) ==
    /\ ~ \E s \in store["device_syncs"] : s.device = device /\ s.message = i
    /\ Begin(p, << {Insert("device_syncs", [id |-> Self, user |-> u, device |-> device,
                                            message |-> i, status |-> "pending"])}
                   \cup _ensure_message_exists(i, u) >>)

mark_sync_complete(p, s) ==
    Begin(p, << Edit("device_syncs", s, [status |-> "synced"]) >>)

create_backup(p, u) ==
    Begin(p, << {Insert("backups", [id |-> Self, user |-> u, status |-> "pending"])} >>)

create_media_gallery(p, u, w) ==
    Begin(p, << {Insert("galleries", [id |-> Self, members |-> {u, w}, creator |-> u,
                                      media_count |-> 0])} >>)

\* The count is read into the session, raised there and written back.
add_media_to_gallery(p, g, m) ==
    Begin(p, << {Insert("gallery_items", [id |-> Self, gallery |-> g.id, message |-> m.id])}
                \cup Edit("galleries", g, [media_count |-> g.media_count + 1]) >>)

create_voice_transcription(p, m) ==
    Begin(p, << {Insert("transcriptions", [id |-> Self, message |-> m.id,
                                           is_processed |-> FALSE])} >>)

\* Sets attributes that are no columns: nothing is written.
mark_message_encrypted(p, m) == Begin(p, <<>>)

-----------------------------------------------------------------------------
(* Routes of the chat extras; several take ids and ask for no owner.        *)

\* The ids a client may name: one of them is of no message.
MessageIds == {m.id : m \in store["messages"]} \cup {-1}

add_bookmark(p) == \E u \in Users, m \in store["messages"] : bookmark_message(p, u, m)
remove_bookmark(p) == \E u \in Users, m \in store["messages"] : unbookmark_message(p, u, m)
schedule_new_message(p) == \E u, w \in Users : schedule_message(p, u, w)
cancel_scheduled(p) ==
    \E u \in Users, s \in store["scheduled_messages"] : cancel_scheduled_message(p, u, s)
translate_msg(p) == \E i \in MessageIds : translate_message(p, i, "en")
sync_to_device(p) ==
    \E u \in Users, i \in MessageIds : sync_message_to_device(p, u, "phone", i)
mark_synced(p) == \E s \in store["device_syncs"] : mark_sync_complete(p, s)
initiate_backup(p) == \E u \in Users : create_backup(p, u)
create_gallery(p) == \E u, w \in Users : create_media_gallery(p, u, w)
add_media(p) ==
    \E g \in store["galleries"], m \in store["messages"] : add_media_to_gallery(p, g, m)
upload_voice_message(p) == \E m \in store["messages"] : create_voice_transcription(p, m)
mark_message_encryption(p) == \E m \in store["messages"] : mark_message_encrypted(p, m)

ChatExtraRoutes(p) ==
    \/ add_bookmark(p)
    \/ remove_bookmark(p)
    \/ schedule_new_message(p)
    \/ cancel_scheduled(p)
    \/ translate_msg(p)
    \/ sync_to_device(p)
    \/ mark_synced(p)
    \/ initiate_backup(p)
    \/ create_gallery(p)
    \/ add_media(p)
    \/ upload_voice_message(p)
    \/ mark_message_encryption(p)

-----------------------------------------------------------------------------
(* Properties.                                                              *)

Delivered(u, w) == {d \in store["delivered"] : {d.from, d.to} = {u, w}}

\* No message passes a block: between two users one of whom blocks the other
\* there is no message of a request that began after the block committed, be
\* it a row, written, sent with media or forwarded, or what the sockets of
\* one were told of the other, by those ways and by the gateway, which stores
\* no row (chat_service.py:96, 174; chat_socket.py:344).
NoMessageThroughBlock ==
    \A b \in store["blocks"] :
        \A m \in Conversation(b.from, b.to) \cup Delivered(b.from, b.to) : m.id <= b.born
=============================================================================
