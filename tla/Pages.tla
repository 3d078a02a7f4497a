--------------------------------- MODULE Pages ---------------------------------
(***************************************************************************)
(* The handlers of the HTML UI, internal/web.  They ask the same service   *)
(* as the JSON API; a form ends in a redirect with a notice, a page is     *)
(* drawn with panels that each carry their own refusal.                    *)
(***************************************************************************)
EXTENDS Handlers

\* The unread count at the top of every page, once somebody is signed in.
base == <<"Notifications">>

Page(steps, panels) == WithPanels(Handler("GET", steps, {200}), base \o panels)
Form(steps)         == Handler("POST", steps, {303})

\* What a document's page shows beside the document.
actionBar     == <<"Transitions">>
approvalPanel == <<"Approvals">>
threadPanel   == <<"Comments">>

\* HTMX swaps a panel in where a browser without it is redirected.
Swaps(handler, panels) == WithPanels([handler EXCEPT !.ok = {200, 303}], panels)

\* Signing in and out.  Whatever kept somebody from signing in, the form says
\* that the address and the password do not match.
loginForm == Open(Handler("GET", <<>>, {200, 303}))
login     == [Open(Form(<<"input", "Login">>)) EXCEPT !.refusal = 401]
logout    == Form(<<"Logout">>)

\* Lists.
dashboard   == Page(<<"ResolveFilter", "ListDocuments">>, <<"Queue">>)
queues      == Page(<<>>, <<"Queue">>)
queue       == Page(<<"Queue">>, <<>>)
documents   == Page(<<"input", "ResolveFilter", "ListDocuments">>, <<"Workflows">>)
jobs        == Page(<<"input", "Jobs">>, <<>>)
users       == Page(<<"Users">>, <<>>)
invitations == Page(<<"input", "Invitations">>, <<>>)
admin       == Page(<<"Workflows">>, <<"Sites", "OutputChannels", "ElementTypes">>)
history     == Page(<<"Versions", "input", "DocumentEvents">>, <<>>)
diff        == Page(<<"input", "Diff">>, <<>>)

\* The inbox is the page and not its panel.
notifications == Handler("GET", <<"input", "Notifications">>, {200})

\* One document, and its draft in the editor.
document ==
  Page(<<"Document">>,
       <<"ElementType">> \o actionBar \o approvalPanel \o threadPanel
         \o <<"DocumentCategories", "Categories", "DocumentURIs", "Resources", "OutputChannels">>)
newDocumentForm == Page(<<"Sites", "ElementTypes">>, <<>>)
editor          == Page(<<"Document", "ElementType">>, <<>>)

\* A new draft is built from the element type's fields, or is empty.
createDocument == [Form(<<"input", "ElementType", "CreateDocument">>) EXCEPT !.panels = {"ElementType"}]
saveDraft      == Form(<<"input", "Document", "ElementType", "UpdateDraft">>)
checkout       == Form(<<"Checkout">>)
cancelCheckout == Form(<<"CancelCheckout">>)
checkin        == Form(<<"input", "Checkin">>)
revert         == Form(<<"Revert">>)

\* The desk.
transition       == Swaps(Form(<<"input", "Transition">>), actionBar)
assign           == Form(<<"input", "Assign">>)
unassign         == Form(<<"Unassign">>)
setDue           == Form(<<"input", "SetDue">>)
fileDocument     == Form(<<"input", "FileDocument">>)
comment          == Swaps(Form(<<"input", "Comment">>), threadPanel)
resolveComment   == Swaps(Form(<<"ResolveComment">>), threadPanel)
approve          == Swaps(Form(<<"Approve">>), approvalPanel)
withdrawApproval == Swaps(Form(<<"WithdrawApproval">>), approvalPanel)
preview          == WithPanels(Handler("POST", <<"input", "Preview">>, {200}), base)
publish          == WithPanels(Handler("POST", <<"input", "Publish">>, {200}), base)
readNotification == [Form(<<"MarkNotificationRead">>) EXCEPT !.ok = {200, 303}]
retryJob         == Form(<<"RetryJob">>)

\* Accounts.  The link of a new invitation is on the list that is drawn next,
\* and nowhere else.
createGrant      == Form(<<"input", "CreateGrant">>)
assignRole       == Form(<<"input", "AssignRole">>)
createInvitation ==
  WithPanels(Handler("POST", <<"input", "CreateInvitation", "Invitations">>, {201}), base)
revokeInvitation == Form(<<"input", "RevokeInvitation">>)
redeemForm       == Open(Handler("GET", <<>>, {200}))
redeem           == Open(Form(<<"input", "Redeem">>))

Register ==
  {loginForm, login, logout, dashboard, queues, queue, documents, jobs, users, invitations, admin,
   history, diff, notifications, document, newDocumentForm, editor, createDocument, saveDraft,
   checkout, cancelCheckout, checkin, revert, transition, assign, unassign, setDue, fileDocument,
   comment, resolveComment, approve, withdrawApproval, preview, publish, readNotification,
   retryJob, createGrant, assignRole, createInvitation, revokeInvitation, redeemForm, redeem}
================================================================================
