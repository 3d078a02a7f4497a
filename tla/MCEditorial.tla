------------------------------ MODULE MCEditorial ------------------------------
(* The default story workflow, as migrations 0005, 0010 and 0011 leave it. *)
EXTENDS Editorial

Move(from, to, privilege, guards, effects) ==
  [from |-> from, to |-> to, privilege |-> privilege, guards |-> guards, effects |-> effects]

MCState == {"draft", "review", "approved", "published", "archived"}

MCPublishable == {"approved", "published"}

MCRequiredApprovals(s) == IF s = "review" THEN 1 ELSE 0

StoryWorkflow == {
  Move("draft", "review", 2, {"not_locked", "assignee_only", "has_slug"},
       {"clear_assignee", "set_due_in"}),
  Move("review", "approved", 4, {"approvals_met", "comments_resolved"}, {"clear_assignee"}),
  Move("approved", "published", 5, {"not_locked", "has_cover_date", "has_checked_in_version"},
       {"publish"}),
  Move("review", "draft", 4, {"note_required"}, {"clear_approvals"}),
  Move("approved", "draft", 4, {"note_required"}, {"clear_approvals"}),
  Move("published", "draft", 3, {}, {"assign_to_actor", "clear_approvals"}),
  Move("draft", "archived", 4, {"not_locked"}, {"clear_assignee"}),
  Move("review", "archived", 4, {"not_locked"}, {"clear_assignee"}),
  Move("published", "archived", 4, {"not_locked"}, {"clear_assignee"}),
  Move("archived", "draft", 3, {}, {})}

\* A publisher, and a writer who is an editor of what is in review and a reader
\* of what has passed it.
MCPrivilegeOf(u, s) ==
  IF u = "pia" THEN 5 ELSE CASE s = "draft" -> 2 [] s = "review" -> 4 [] OTHER -> 1

MCFilled == {{}, {"slug", "cover_date"}}

\* What follows a write that was cut off differs from what follows the same write
\* uncut in told alone, which no action reads, and which EventsAccountForRows
\* speaks of only where nothing was cut off: it need not be searched twice.
Uncut == interrupts = 0

\* The default workflow is a process that NothingScheduledUnapproved speaks of.
ASSUME DefaultNeedsApproval == PublishingNeedsApproval
================================================================================
