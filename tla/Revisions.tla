------------------------------- MODULE Revisions -------------------------------
(***************************************************************************)
(* The migrations of alembic/versions, in their order.  A revision is two  *)
(* sequences of steps, up and down; a step makes, drops, renames or uses   *)
(* elements of the schema, and fails where PostgreSQL would refuse it.     *)
(* Data a later revision depends on are elements like the others; the      *)
(* rest of what revisions write into rows is left out.                     *)
(***************************************************************************)
EXTENDS Schema

Step(do, elements, to) == [do |-> do, of |-> elements, to |-> to, given |-> {}, unless |-> {}]
Make(elements) == Step("make", elements, {})
Ensure(elements) == Step("ensure", elements, {})       \* what is missing of them
Drop(elements) == Step("drop", elements, {})
Discard(elements) == Step("discard", elements, {})     \* what is there of them
Rename(element, to) == Step("rename", {element}, {to})
Use(elements) == Step("use", elements, {})             \* statements that read or alter them
Given(elements, step) == [step EXCEPT !.given = elements]
Unless(elements, step) == [step EXCEPT !.unless = elements]

Failed == {<<"failed">>}

\* With the elements of "gone" nothing may be left that refers to them.
Without(db, gone) == IF Sound(db \ Under(db, gone)) THEN db \ Under(db, gone) ELSE Failed
With(db, new) == IF \A e \in new : Needs(e) \subseteq db \union new THEN db \union new ELSE Failed
Renamed(db, from, to) ==
    (db \ Under(db, {from})) \union {to \o SubSeq(x, Len(from) + 1, Len(x)) : x \in Under(db, {from})}

Applies(db, s) == s.given \subseteq db /\ (s.unless = {} \/ ~ s.unless \subseteq db)

Apply(db, s) ==
    CASE db = Failed \/ ~Applies(db, s) -> db
      [] s.do = "make"    -> IF s.of \intersect db = {} THEN With(db, s.of) ELSE Failed
      [] s.do = "ensure"  -> With(db, s.of)
      [] s.do = "drop"    -> IF s.of \subseteq db THEN Without(db, s.of) ELSE Failed
      [] s.do = "discard" -> Without(db, s.of)
      [] s.do = "rename"  -> LET from == CHOOSE e \in s.of : TRUE
                                 to == CHOOSE e \in s.to : TRUE
                             IN IF from \in db /\ to \notin db THEN Renamed(db, from, to) ELSE Failed
      [] s.do = "use"     -> IF s.of \subseteq db THEN db ELSE Failed

Applied(db, steps) == FoldLeft(Apply, db, steps)

\* One after the other, in the order the tables are named.
ForEach(tables, Make1(_)) == [i \in DOMAIN tables |-> Make1(tables[i])]
AddColumns(t, names) == [up |-> <<Make(Of(t, names))>>, down |-> <<Drop(Of(t, names))>>]
-----------------------------------------------------------------------------
Core == UNION {Table(t) : t \in {"users", "temple_members", "donors", "announcements"}}
R001 == [up   |-> <<Make(Core \union Of("donors", {"amount"}))>>,
         down |-> <<Drop({<<"announcements">>}), Drop({<<"donors">>}), Drop({<<"temple_members">>}), Drop({<<"users">>})>>]

OldTypes == Types({"paymentmode", "expensecategory", "incomesourcetype", "contactstatus",
                   "paymentstatus", "ticketstatus", "ticketsource"})
Remaining == <<"contact_messages", "festivals", "poojas", "temples", "visitor_logs", "expense_transactions",
               "gallery", "income_transactions", "seva_tickets">>
ReceiptFields == Of("donors", {"payment_mode", "receipt_number", "receipt_generated_at"})
TableIfMissing(t) == Unless({<<t>>}, Make(Table(t)))
Up002 == <<Ensure(OldTypes)>> \o ForEach(Remaining, TableIfMissing) \o <<Ensure(ReceiptFields)>>
Down002 == <<Discard(ReceiptFields)>>
             \o ForEach(Reverse(Remaining), LAMBDA t : Discard({<<t>>})) \o <<Discard(OldTypes)>>

\* _sync_table: the table, or the columns it lacks.
Synced(t) == Ensure(Table(t))

PreV2 == <<"users", "temple_members", "donors", "announcements", "temples", "poojas", "festivals", "gallery",
           "contact_messages", "seva_tickets", "income_transactions", "expense_transactions", "visitor_logs">>
LegacyMembers == Unless({<<"temple_members">>}, Given({<<"members">>},
                        Make(Table("temple_members") \union Of("temple_members", {"legacy rows"}))))
R003 == [up   |-> <<Ensure(OldTypes), LegacyMembers>> \o ForEach(PreV2, Synced), down |-> <<>>]

\* The gifts a donor's row carried are copied, where there are any.
LegacyGifts == Unless({<<"donations">>}, Given(Of("donors", {"amount", "gifts"}),
                      Make(Table("donations") \union Of("donations", {"legacy gifts"}))))
V2Columns == Of("temples", Profile) \union Of("temple_members", {"show_on_website", "sort_order", "photo_url"})
               \union Of("festivals", {"end_date", "location", "image_url"})
               \union Of("poojas", {"sort_order"}) \union Of("gallery", {"sort_order"})
Money == {<<t, "columns">> : t \in {"poojas", "seva_tickets", "income_transactions", "expense_transactions"}}
Up004 == <<LegacyGifts, TableIfMissing("donations"), TableIfMissing("audit_logs"), TableIfMissing("temple_timings"),
           Ensure(V2Columns), Use(Money)>>
Down004 == <<Use(Money), Drop(V2Columns), Drop({<<"temple_timings">>}), Drop({<<"audit_logs">>}), Drop({<<"donations">>})>>

Archives == Of("seva_tickets", {"pdf_s3_key"}) \union Of("donations", {"receipt_s3_key"})
R005 == [up |-> <<Make(Archives)>>, down |-> <<Drop(Archives)>>]

TokenIndex == Of("password_reset_tokens", {"token_hash index"})
R006 == [up   |-> <<Make(Table("password_reset_tokens")), Make(TokenIndex)>>,
         down |-> <<Drop(TokenIndex), Drop({<<"password_reset_tokens">>})>>]
R007 == [up |-> <<Drop(TokenIndex)>>, down |-> <<Make(TokenIndex)>>]
R008 == [up   |-> <<Make(Table("email_otps")), Make(Of("seva_tickets", {"email"}))>>,
         down |-> <<Drop(Of("seva_tickets", {"email"})), Drop({<<"email_otps">>})>>]
R009 == AddColumns("seva_tickets", {"booked_by_user_id"})
Announcing == Of("festivals", {"auto_announce", "announce_days_before"}) \union Of("announcements", {"source_festival_id"})
R010 == [up |-> <<Make(Announcing)>>, down |-> <<Drop(Announcing)>>]

\* A label stays when a revision is undone.
R011 == [up |-> <<Ensure(Labels("paymentstatus", {"PENDING"}))>>, down |-> <<>>]
R012 == [up |-> <<Use({<<"temples", "columns">>})>>, down |-> <<Use({<<"temples", "columns">>})>>]
Occasions == Of("seva_tickets", {"occasion"}) \union Of("donations", {"occasion"})
R013 == [up |-> <<Make(Occasions)>>, down |-> <<Drop(Occasions)>>]

OccasionLabel == <<"type", "incomesourcetype", "OCCASION_BLESSING">>
R014 == [up   |-> <<Ensure({OccasionLabel}), Ensure(Types({"blessingpaymentstatus"})), Make(Table("occasion_blessings"))>>,
         down |-> <<Drop({<<"occasion_blessings">>}), Discard(Types({"blessingpaymentstatus"}))>>]

AbhishekamLabel == <<"type", "incomesourcetype", "ABHISHEKAM">>
Visibility == Of("abhishekams", {"visibility", "occasion_date index"})

\* "so a downgrade + re-upgrade still works"
RenameLabelOnce == Unless({AbhishekamLabel}, Rename(OccasionLabel, AbhishekamLabel))

R015 == [up   |-> <<RenameLabelOnce, Rename(<<"type", "blessingpaymentstatus">>, <<"type", "abhishekampaymentstatus">>),
                    Rename(<<"occasion_blessings">>, <<"abhishekams">>),
                    Ensure(Types({"abhishekamvisibility"})), Make(Visibility)>>,
         down |-> <<Drop(Visibility), Discard(Types({"abhishekamvisibility"})),
                    Rename(<<"abhishekams">>, <<"occasion_blessings">>),
                    Rename(<<"type", "abhishekampaymentstatus">>, <<"type", "blessingpaymentstatus">>)>>]

Sent == Of("abhishekams", {"greeting_sent_at"}) \union Of("seva_tickets", {"greeting_sent_at"})
R016 == [up |-> <<Make(Sent), Use({<<"seva_tickets", "occasion">>, <<"seva_tickets", "email">>})>>, down |-> <<Drop(Sent)>>]

Indexes == {<<t, "query index">> : t \in {"income_transactions", "seva_tickets", "contact_messages", "audit_logs", "abhishekams"}}
R017 == [up |-> <<Ensure(Indexes)>>, down |-> <<Discard(Indexes)>>]

BookedBlessings == Of("seva_tickets", {"photo_url", "show_publicly"}) \union Of("poojas", {"daily_slot_cap", "public_blessings"})
AbhishekamTypes == Types({"abhishekampaymentstatus", "abhishekamvisibility"})

RetireIfEmpty == Unless(Of("abhishekams", {"bookings"}), Drop({<<"abhishekams">>} \union AbhishekamTypes))

RestoreTable == Unless({<<"abhishekams">>}, Make(AbhishekamTypes \union Table("abhishekams") \union Visibility
                                               \union Of("abhishekams", {"greeting_sent_at", "query index"})))
R018 == [up |-> <<Make(BookedBlessings), RetireIfEmpty>>, down |-> <<Drop(BookedBlessings), RestoreTable>>]

R019 == AddColumns("seva_tickets", {"photo_key", "review_status"})
R020 == AddColumns("festivals", {"source_key"})
R021 == [up |-> <<Use({<<"festivals", "source_key">>})>>, down |-> <<>>]
R022 == AddColumns("users", {"terms_accepted_at"})
R023 == AddColumns("temples", {"upi_vpa"})
R024 == AddColumns("users", {"token_version"})
R025 == AddColumns("temples", Trust)

ExpenseStatus == Of("expense_transactions", {"status"})
StockTypes == Types({"expensestatus", "itemkind", "assetcondition", "movementtype"})
Up026 == <<Ensure(NewCategories), Ensure(StockTypes), Make(ExpenseStatus),
           Make(Of("expense_transactions", Workflow)), Make(Table("expense_budgets")), Make(Table("inventory_items")),
           Make(Table("stock_movements")), Make(Table("asset_verifications"))>>
Down026 == <<Drop({<<"asset_verifications">>}), Drop({<<"stock_movements">>}), Drop({<<"inventory_items">>}),
             Drop({<<"expense_budgets">>}), Drop(Of("expense_transactions", Workflow)), Use(ExpenseStatus),
             Drop(ExpenseStatus), Discard(StockTypes)>>

LetterTypes == Types({"letterkind", "letterstatus", "signatoryrole", "signatorystatus", "letterimagekind"})
R027 == [up   |-> <<Ensure(LetterTypes), Make(Table("letter_images")), Make(Table("official_letters")),
                    Make(Table("letter_signatories"))>>,
         down |-> <<Drop({<<"letter_signatories">>}), Drop({<<"official_letters">>}), Drop({<<"letter_images">>}),
                    Discard(LetterTypes)>>]
R028 == [up |-> <<Ensure(NewKinds)>>, down |-> <<>>]
R029 == [up   |-> <<Make(Of("users", {"email_verified_at"})), Use({<<"users", "columns">>})>>,
         down |-> <<Drop(Of("users", {"email_verified_at"}))>>]
R030 == AddColumns("temples", {"tv_sections"})
-----------------------------------------------------------------------------
Revisions == <<R001, [up |-> Up002, down |-> Down002], R003, [up |-> Up004, down |-> Down004], R005, R006, R007, R008,
               R009, R010, R011, R012, R013, R014, R015, R016, R017, R018, R019, R020, R021, R022, R023, R024, R025,
               [up |-> Up026, down |-> Down026], R027, R028, R029, R030>>
Latest == Len(Revisions)
=============================================================================
