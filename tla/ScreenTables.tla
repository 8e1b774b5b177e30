---------------------------- MODULE ScreenTables ----------------------------
(***************************************************************************)
(* What the screens of the three programs offer, and what the server       *)
(* accepts: tables of the module Screens.                                  *)
(*                                                                         *)
(* One record for each screen of the admin panel (admin-panel/src/app/     *)
(* (admin)) on which staff decide something, and for each of the two apps  *)
(* (courier-app/app, customer-app/app) that sends more than a form of its  *)
(* own module; and one record for each endpoint they call.                 *)
(*                                                                         *)
(* A row is an order, a payout request, a document...; on a form it is one *)
(* filling in of its fields.                                               *)
(***************************************************************************)

-----------------------------------------------------------------------------
(* Roles: lib/auth-storage.ts for the panel, @Roles for the server *)

ADMIN == "ADMIN"
OM == "OPERATIONS_MANAGER"
OS == "OPERATIONS_SPECIALIST"
ACC == "ACCOUNTING_SPECIALIST"

hasStaffAccess == {ADMIN, OM, OS, ACC}
canViewCouriers == {ADMIN, OM, OS}
canViewCustomers == {ADMIN, OM, OS, ACC}
canViewFinance == {ADMIN, ACC, OM}
canViewCourierEarnings == {ADMIN, ACC, OM}
canViewReports == {ADMIN, ACC, OM}
canViewUsers == {ADMIN, OM}
canAssignCourier == {ADMIN, OM, OS}
canCreateStaffUsers == {ADMIN}
canMarkCourierPaid == {ADMIN, ACC}
canPostFinanceTransaction == {ADMIN, ACC}
canManagePricingRules == {ADMIN, OM, ACC}
canDeletePricingRules == {ADMIN, OM}
canEditCustomerProfile == {ADMIN, OM, ACC}
canManageCustomerCredit == {ADMIN}

courier == {"COURIER"}
customer == {"CUSTOMER"}
anybody == {"NOBODY"}   \* not logged in

-----------------------------------------------------------------------------
(* Buttons: the statuses they are offered for, what they set, who sees     *)
(* them, the flag they raise, and what they wait for: "row", the flag      *)
(* raised by this row; "page", the flag raised at all; "never".            *)

Button(from, to, roles, flag, waits) ==
  [from |-> from, to |-> to, roles |-> roles, flag |-> flag, waits |-> waits,
   dialog |-> FALSE]

InDialog(button) == [button EXCEPT !.dialog = TRUE]

(* PENDING is as SEARCHING_COURIER here, PICKED_UP and ON_DELIVERY as      *)
(* ACCEPTED, DELIVERED as CANCELLED: no page offers more for one than for  *)
(* the other.                                                              *)
OrderStatuses == {"SEARCHING_COURIER", "ACCEPTED", "CANCELLED"}

(* orders/page.tsx: the row's menu and its cancel button, one rowBusy; the *)
(* drawer opened from the row, which shows it as it is in the list         *)
OrdersRow ==
  [setStatus   |-> Button(OrderStatuses, OrderStatuses, canAssignCourier, "rowBusy",
                          "row"),
   cancelOrder |-> Button({"SEARCHING_COURIER", "ACCEPTED"}, {"CANCELLED"},
                          canAssignCourier, "rowBusy", "row")]

OrderDrawer ==
  [assign |-> Button({"SEARCHING_COURIER"}, {"ACCEPTED"}, canAssignCourier, "assigning",
                     "page")]

(* ... and the bar over the list: the selected orders, one after the       *)
(* other.  To keep the instance small the page is looked at in two parts,  *)
(* with the row's cancel button in both.                                   *)
OrdersBulk ==
  [cancelOrder |-> OrdersRow.cancelOrder,
   bulkCancel  |-> Button({"SEARCHING_COURIER", "ACCEPTED"}, {"CANCELLED"},
                          canAssignCourier, "bulkBusy", "page")]

(* orders/[id]/page.tsx: two panels, two flags *)
OrderDetail ==
  [setStatus |-> Button(OrderStatuses, OrderStatuses, canAssignCourier,
                        "statusUpdating", "page"),
   assign    |-> InDialog(Button({"SEARCHING_COURIER"}, {"ACCEPTED"}, canAssignCourier,
                                 "assigning", "page"))]

(* operations/page.tsx *)
OperationsDesk ==
  [assign |-> Button({"SEARCHING_COURIER"}, {"ACCEPTED"}, canAssignCourier,
                     "assigning", "page")]

(* payout-requests/page.tsx *)
(* Mutation: a request that was paid may still be rejected. *)
PayoutRequestsRejectPaid ==
  [approvePayout |-> Button({"PENDING"}, {"APPROVED"}, canMarkCourierPaid, "busyId", "row"),
   rejectPayout  |-> Button({"PENDING", "APPROVED", "PAID"}, {"REJECTED"},
                            canMarkCourierPaid, "busyId", "row"),
   payPayout     |-> InDialog(Button({"APPROVED"}, {"PAID"}, canMarkCourierPaid, "busyId",
                                     "row"))]

PayoutRequests ==
  [approvePayout |-> Button({"PENDING"}, {"APPROVED"}, canMarkCourierPaid, "busyId", "row"),
   rejectPayout  |-> Button({"PENDING", "APPROVED"}, {"REJECTED"}, canMarkCourierPaid,
                            "busyId", "row"),
   payPayout     |-> InDialog(Button({"APPROVED"}, {"PAID"}, canMarkCourierPaid, "busyId",
                                     "row"))]

(* courier-earnings/page.tsx: the ticked rows at once, here one *)
CourierEarnings ==
  [markPaid |-> Button({"PENDING"}, {"PAID"}, canMarkCourierPaid, "marking", "page")]

(* couriers/registrations/page.tsx *)
Registrations ==
  [approveRegistration |-> Button({"PENDING"}, {"PRE_APPROVED"}, canViewCouriers, "busyId",
                                  "row"),
   rejectRegistration  |-> InDialog(Button({"PENDING"}, {"REJECTED"}, canViewCouriers,
                                           "busyId", "page"))]

(* couriers/document-review/page.tsx *)
DocumentReview ==
  [approveDocument |-> Button({"PENDING_REVIEW"}, {"APPROVED"}, canViewCouriers, "busyKey",
                              "page"),
   rejectDocument  |-> InDialog(Button({"PENDING_REVIEW"}, {"REJECTED"}, canViewCouriers,
                                       "busyKey", "page"))]

(* couriers/page.tsx *)
CourierList ==
  [setOnline |-> Button({"OFFLINE", "UNAPPROVED"}, {"ONLINE"}, canViewCouriers, "rowBusy",
                        "row"),
   setOffline |-> Button({"ONLINE"}, {"OFFLINE"}, canViewCouriers, "rowBusy", "row")]

(* couriers/[id]/page.tsx *)
CourierDetail ==
  [setOnline |-> Button({"OFFLINE", "UNAPPROVED"}, {"ONLINE"}, canViewCouriers,
                        "toggleBusy", "page"),
   setOffline |-> Button({"ONLINE"}, {"OFFLINE"}, canViewCouriers, "toggleBusy", "page")]

(* customers/[id]/page.tsx: profile, credit and a transaction, each with   *)
(* its own flag                                                            *)
CustomerProfile ==
  [saveCustomer |-> Button({"INDIVIDUAL", "CORPORATE"}, {"INDIVIDUAL", "CORPORATE"},
                           canEditCustomerProfile, "saving", "page")]

CreditForm ==
  [saveCredit |-> Button({"CORPORATE"}, {"CORPORATE"}, canManageCustomerCredit,
                         "creditSaving", "page")]

(* Mutation: the button of the dialog never waits. *)
CustomerTransactionUnbound ==
  [postTransaction |-> InDialog(Button({"FILLED"}, {"POSTED"}, canPostFinanceTransaction,
                                       "txSubmitting", "never"))]

CustomerTransaction ==
  [postTransaction |-> InDialog(Button({"FILLED"}, {"POSTED"}, canPostFinanceTransaction,
                                       "txSubmitting", "page"))]

(* finance/accounts/page.tsx: two dialogs, one flag *)
AccountTransactions ==
  [postTransaction |-> InDialog(Button({"FILLED"}, {"POSTED"}, canPostFinanceTransaction,
                                       "txBusy", "page")),
   postDebit       |-> InDialog(Button({"FILLED"}, {"POSTED"}, canPostFinanceTransaction,
                                       "txBusy", "page"))]

(* users/page.tsx *)
StaffUsers ==
  [createUser |-> InDialog(Button({"FILLED"}, {"POSTED"}, canCreateStaffUsers, "creating",
                                  "page"))]

(* finance/pricing/page.tsx: neither editing nor deleting waits *)
PricingRules ==
  [updateRule |-> Button({"EXISTS"}, {"EXISTS"}, canManagePricingRules, "none", "never"),
   deleteRule |-> Button({"EXISTS"}, {"DELETED"}, canDeletePricingRules, "none", "never")]

(* ... and its form, whose fields stay after the answer *)
PricingForm ==
  [createRule |-> Button({"FILLED"}, {"POSTED"}, canManagePricingRules, "creating", "page")]

(* finance/accounts/[customerId]/page.tsx *)
AccountLedger ==
  [postTransaction |-> Button({"FILLED"}, {"POSTED"}, canPostFinanceTransaction,
                              "submitting", "page")]

(* couriers/map: the order selected on the map *)
CommandMap ==
  [assign |-> Button({"SEARCHING_COURIER"}, {"ACCEPTED"}, canAssignCourier, "assignBusy",
                     "page")]

-----------------------------------------------------------------------------
(* The screens of the apps.  The flag is isPending of a mutation of React  *)
(* Query.                                                                  *)

(* earnings.tsx: the courier's bank account, what is due to him, and       *)
(* whether a request of his is open, from three queries                    *)
PayoutScreen ==
  [requestPayout |-> Button({"WITHDRAWABLE"}, {"REQUESTED"}, courier, "requestPayout",
                            "page")]

(* profile.tsx and dashboard.tsx; both are behind the approval gate. *)
OnlineSwitch ==
  [goOnline  |-> Button({"OFFLINE"}, {"ONLINE"}, courier, "toggleOnline", "page"),
   goOffline |-> Button({"ONLINE"}, {"OFFLINE"}, courier, "toggleOnline", "page")]

(* profile.tsx: the bank account, edited in place *)
BankForm ==
  [saveBank |-> InDialog(Button({"INCOMPLETE", "COMPLETE"}, {"INCOMPLETE", "COMPLETE"},
                                courier, "saveBank", "page"))]

(* CourierDocumentsFlow.tsx: one mutation for uploading any document, and  *)
(* one for sending them all to review, see Visible of Screens              *)
DocumentUpload ==
  [upload       |-> Button({"MISSING", "PENDING_REVIEW", "REJECTED"}, {"PENDING_REVIEW"},
                           courier, "busyType", "page"),
   submitReview |-> Button({"PENDING_REVIEW"}, {"UNDER_REVIEW"}, courier, "submitMu",
                           "page")]

(* delivery/[orderId].tsx and ActiveDeliveryFocusCard.tsx: one button, for *)
(* the next status                                                         *)
DeliverySteps ==
  [pickUp  |-> Button({"ACCEPTED"}, {"PICKED_UP"}, courier, "statusMut", "page"),
   leave   |-> Button({"PICKED_UP"}, {"ON_DELIVERY"}, courier, "statusMut", "page"),
   deliver |-> Button({"ON_DELIVERY"}, {"DELIVERED"}, courier, "statusMut", "page")]

(* history.tsx of the customer app: a mutation of its own for every order *)
RateCourier ==
  [rate |-> Button({"DELIVERED"}, {"RATED"}, customer, "none", "own")]

(* register.tsx of the courier app, whose four steps are one form here ... *)
CourierRegistration ==
  [registerCourier |-> Button({"FILLED"}, {"POSTED"}, anybody, "mutation", "page")]

(* ... and of the customer app *)
CustomerRegistration ==
  [registerCustomer |-> Button({"FILLED"}, {"POSTED"}, anybody, "mutation", "page")]

-----------------------------------------------------------------------------
(* For each screen: its users, the lists it loads and for whom, its        *)
(* buttons, the statuses its list has rows of, what follows the answer,    *)
(* whether the user can load the list himself, and the steps that only     *)
(* others take.  What follows:                                             *)
(*   "patch"       the answer is put into the row;                         *)
(*   "load"        the list is loaded, then the flag is lowered;           *)
(*   "invalidate"  the flag is lowered, and the list is loaded;            *)
(*   "leave"       the next screen opens.                                  *)
(* partial[s] is what is shown for status s when only some of the queries  *)
(* behind the list have been answered.                                     *)

Nobody == [none |-> {}]   \* no list of its own

Screen(staff, buttons, lists, after, refresh) ==
  [users |-> staff, loads |-> Nobody, buttons |-> buttons, lists |-> lists,
   after |-> after, refresh |-> refresh, others |-> {}, form |-> "none",
   partial |-> [s \in {} |-> s]]

(* A page of the panel, which its users alone can open. *)
Panel(staff, loads, buttons, lists, after, refresh) ==
  [Screen(staff, buttons, lists, after, refresh) EXCEPT !.loads = loads]

WithOthers(scr, steps) == [scr EXCEPT !.others = steps]

(* A form, whose fields an accepted call "clears" or "keeps". *)
WithFields(scr, fields) == [scr EXCEPT !.form = fields, !.lists = {"FILLED"}]

Merged(f, g) ==
  [op \in DOMAIN f \cup DOMAIN g |-> IF op \in DOMAIN f THEN f[op] ELSE g[op]]

PayoutStatuses == {"PENDING", "APPROVED", "PAID", "REJECTED"}
EarningStatuses == {"PENDING", "REQUESTED", "PAID"}
OnlineStatuses == {"ONLINE", "OFFLINE", "UNAPPROVED"}
CustomerTypes == {"INDIVIDUAL", "CORPORATE"}

OrdersPage ==
  Panel(hasStaffAccess, [orders |-> hasStaffAccess], Merged(OrdersRow, OrderDrawer),
        OrderStatuses, "patch", FALSE)

OrdersBulkPage ==
  Panel(hasStaffAccess, [orders |-> hasStaffAccess], OrdersBulk, OrderStatuses, "patch",
        FALSE)

OrderPage ==
  Panel(hasStaffAccess, [orders |-> hasStaffAccess, couriers |-> canAssignCourier],
        OrderDetail, OrderStatuses, "patch", FALSE)

OperationsPage ==
  Panel(canViewCouriers, [orders |-> canViewCouriers, couriers |-> canViewCouriers],
        OperationsDesk, OrderStatuses, "patch", FALSE)

CommandMapPage ==
  Panel(canViewCouriers, [orders |-> canViewCouriers, couriers |-> canViewCouriers],
        CommandMap, OrderStatuses, "load", TRUE)

PayoutRequestsPage ==
  Panel(canViewCourierEarnings, [payouts |-> canViewCourierEarnings], PayoutRequests,
        PayoutStatuses, "load", TRUE)

CourierEarningsPage ==
  Panel(canViewCourierEarnings, [earnings |-> canViewCourierEarnings], CourierEarnings,
        EarningStatuses, "load", TRUE)

RegistrationsPage ==
  Panel(canViewCouriers, [registrations |-> canViewCouriers], Registrations, {"PENDING"},
        "load", TRUE)

(* The couriers under review and their documents.  With one document that  *)
(* is rejected the courier leaves the review, and the others wait with him. *)
DocumentReviewPage ==
  WithOthers(Panel(canViewCouriers, [registrations |-> canViewCouriers], DocumentReview,
                   {"PENDING_REVIEW", "APPROVED"}, "load", TRUE),
             {<<"PENDING_REVIEW", "SENT_BACK">>})

CouriersPage ==
  Panel(canViewCouriers, [couriers |-> canViewCouriers], CourierList, OnlineStatuses,
        "patch", TRUE)

CourierPage ==
  Panel(canViewCouriers, [couriers |-> canViewCouriers], CourierDetail, OnlineStatuses,
        "load", TRUE)

CustomerLoads ==
  [customers |-> canViewCustomers, transactions |-> canViewFinance]

CustomerPage ==
  Panel(canViewCustomers, CustomerLoads, Merged(CustomerProfile, CreditForm),
        CustomerTypes, "patch", FALSE)

CustomerTransactionPage ==
  WithFields(Panel(canViewCustomers, CustomerLoads, CustomerTransaction, {}, "load", FALSE),
             "clears")

AccountsPage ==
  WithFields(Panel(canViewFinance, [accounts |-> canViewFinance], AccountTransactions, {},
                   "load", TRUE), "clears")

AccountPage ==
  WithFields(Panel(canViewFinance, [accounts |-> canViewFinance,
                                    transactions |-> canViewFinance],
                   AccountLedger, {}, "load", FALSE), "clears")

UsersPage ==
  WithFields(Panel(canViewUsers, [users |-> canViewUsers], StaffUsers, {}, "load", FALSE),
             "clears")

PricingLoads == [rules |-> canViewCustomers, customers |-> canViewCustomers]

PricingRulesPage ==
  Panel(canViewCustomers, PricingLoads, PricingRules, {"EXISTS"}, "load", FALSE)

PricingFormPage ==
  WithFields(Panel(canViewCustomers, PricingLoads, PricingForm, {}, "load", FALSE), "keeps")

(* Pages that only show: their rows change by what others do. *)
OrderMoves ==
  {<<"SEARCHING_COURIER", "ACCEPTED">>, <<"ACCEPTED", "CANCELLED">>}

NoButtons == [op \in {} |-> op]

Show(staff, loads, lists, refresh) == Panel(staff, loads, NoButtons, lists, "load", refresh)

DashboardPage ==
  WithOthers(Show(hasStaffAccess, [orders |-> hasStaffAccess, couriers |-> canViewCouriers],
                  OrderStatuses, FALSE), OrderMoves)

CustomersPage ==
  WithOthers(Show(canViewCustomers,
                  [customers |-> canViewCustomers, orders |-> canViewCustomers,
                   transactions |-> canViewFinance], OrderStatuses, FALSE), OrderMoves)

AwaitingDocumentsPage ==
  WithOthers(Show(canViewCouriers, [registrations |-> canViewCouriers],
                  {"MISSING", "PENDING_REVIEW", "REJECTED"}, TRUE),
             {<<"MISSING", "PENDING_REVIEW">>, <<"REJECTED", "PENDING_REVIEW">>})

TransactionsPage ==
  Show(canViewFinance, [transactions |-> canViewFinance], {"POSTED"}, FALSE)

EarningPage ==
  WithOthers(Show(canViewCourierEarnings, [earnings |-> canViewCourierEarnings],
                  EarningStatuses, FALSE), {<<"PENDING", "REQUESTED">>, <<"REQUESTED", "PAID">>})

ReportsPage == Show(canViewReports, [reports |-> canViewReports], {"POSTED"}, FALSE)

PanelPages ==
  [orders |-> OrdersPage, ordersBulk |-> OrdersBulkPage, order |-> OrderPage,
   operations |-> OperationsPage, commandMap |-> CommandMapPage,
   payouts |-> PayoutRequestsPage, earnings |-> CourierEarningsPage,
   earning |-> EarningPage, registrations |-> RegistrationsPage,
   documents |-> DocumentReviewPage, awaiting |-> AwaitingDocumentsPage,
   couriers |-> CouriersPage, courier |-> CourierPage, customers |-> CustomersPage,
   customer |-> CustomerPage, transaction |-> CustomerTransactionPage,
   accounts |-> AccountsPage, account |-> AccountPage, transactions |-> TransactionsPage,
   users |-> UsersPage, rules |-> PricingRulesPage, ruleForm |-> PricingFormPage,
   dashboard |-> DashboardPage, reports |-> ReportsPage]

(* A delivery makes money due, accounting pays or rejects.  While the      *)
(* payout requests are not there, or could not be read, an open one does   *)
(* not show, and what was earned since may be requested.                   *)
EarningsTab ==
  [WithOthers(Screen(courier, PayoutScreen,
                     {"NO_BANK", "NOTHING_DUE", "WITHDRAWABLE", "REQUESTED"},
                     "invalidate", TRUE),
              {<<"NOTHING_DUE", "WITHDRAWABLE">>, <<"REQUESTED", "NOTHING_DUE">>,
               <<"REQUESTED", "WITHDRAWABLE">>, <<"NO_BANK", "WITHDRAWABLE">>})
   EXCEPT !.partial = [REQUESTED |-> "WITHDRAWABLE"]]

OnlineTab == Screen(courier, OnlineSwitch, {"ONLINE", "OFFLINE"}, "invalidate", FALSE)

BankTab == Screen(courier, BankForm, {"INCOMPLETE", "COMPLETE"}, "invalidate", FALSE)

(* A reviewer decides on a document that is under review, or sends it back *)
(* with another one.                                                       *)
DocumentsFlow ==
  WithOthers(Screen(courier, DocumentUpload,
                    {"MISSING", "PENDING_REVIEW", "REJECTED", "APPROVED", "UNDER_REVIEW"},
                    "invalidate", TRUE),
             {<<"UNDER_REVIEW", "APPROVED">>, <<"UNDER_REVIEW", "REJECTED">>,
              <<"UNDER_REVIEW", "PENDING_REVIEW">>})

(* A dispatcher takes the order away or moves it back. *)
DeliveryCard ==
  WithOthers(Screen(courier, DeliverySteps,
                    {"ACCEPTED", "PICKED_UP", "ON_DELIVERY", "DELIVERED"},
                    "invalidate", FALSE),
             {<<"ACCEPTED", "TAKEN">>, <<"ON_DELIVERY", "TAKEN">>,
              <<"DELIVERED", "ACCEPTED">>})

HistoryTab ==
  WithOthers(Screen(customer, RateCourier, {"ON_DELIVERY", "DELIVERED", "RATED"},
                    "invalidate", TRUE),
             {<<"ON_DELIVERY", "DELIVERED">>, <<"DELIVERED", "ON_DELIVERY">>})

CourierRegister ==
  WithFields(Screen(anybody, CourierRegistration, {}, "leave", FALSE), "clears")

CustomerRegister ==
  WithFields(Screen(anybody, CustomerRegistration, {}, "leave", FALSE), "clears")

AppScreens ==
  [payout |-> EarningsTab, online |-> OnlineTab, bank |-> BankTab,
   upload |-> DocumentsFlow, delivery |-> DeliveryCard, rating |-> HistoryTab,
   joinCourier |-> CourierRegister, joinCustomer |-> CustomerRegister]

AllScreens == Merged(PanelPages, AppScreens)

-----------------------------------------------------------------------------
(* The roles the server lets read a list *)

(* Mutation: only those who act on payout requests may read them. *)
MoneyListsForActors ==
  [payouts |-> {ADMIN, ACC}, earnings |-> {ADMIN, ACC, OM},
   accounts |-> {ADMIN, ACC, OM}, transactions |-> {ADMIN, ACC, OM}]

MoneyLists ==
  [payouts |-> {ADMIN, ACC, OM}, earnings |-> {ADMIN, ACC, OM},
   accounts |-> {ADMIN, ACC, OM}, transactions |-> {ADMIN, ACC, OM}]

CourierLists == [couriers |-> {ADMIN, OM, OS}, registrations |-> {ADMIN, OM, OS}]

OtherLists ==
  [orders |-> {ADMIN, OM, OS, ACC}, customers |-> {ADMIN, OM, OS, ACC},
   rules |-> {ADMIN, OM, ACC, OS}, users |-> {ADMIN, OM}, reports |-> {ADMIN, OM, ACC},
   none |-> {}]

AllLists == Merged(MoneyLists, Merged(CourierLists, OtherLists))

-----------------------------------------------------------------------------
(* Endpoints: the roles and the statuses the server accepts a call for *)

Endpoint(roles, from) == [roles |-> roles, from |-> from]

(* Mutation: only a request that still waits may be rejected. *)
PayoutEndpointsNoCheck ==
  [approvePayout |-> Endpoint({ADMIN, ACC}, {"PENDING"}),
   rejectPayout  |-> Endpoint({ADMIN, ACC}, {"PENDING"}),
   payPayout     |-> Endpoint({ADMIN, ACC}, {"APPROVED"})]

PayoutEndpoints ==
  [approvePayout |-> Endpoint({ADMIN, ACC}, {"PENDING"}),
   rejectPayout  |-> Endpoint({ADMIN, ACC}, {"PENDING", "APPROVED"}),
   payPayout     |-> Endpoint({ADMIN, ACC}, {"APPROVED"})]

EarningEndpoints == [markPaid |-> Endpoint({ADMIN, ACC}, {"PENDING"})]

OrderEndpoints ==
  [setStatus   |-> Endpoint({ADMIN, OM, OS}, OrderStatuses),
   cancelOrder |-> Endpoint({ADMIN, OM, OS}, OrderStatuses),
   bulkCancel  |-> Endpoint({ADMIN, OM, OS}, OrderStatuses),
   assign      |-> Endpoint({ADMIN, OM, OS}, {"SEARCHING_COURIER"})]

RegistrationEndpoints ==
  [approveRegistration |-> Endpoint({ADMIN, OM, OS}, {"PENDING"}),
   rejectRegistration  |-> Endpoint({ADMIN, OM, OS}, {"PENDING"})]

(* ... while the courier is under review: one sent back is not PENDING_REVIEW *)
DocumentEndpoints ==
  [approveDocument |-> Endpoint({ADMIN, OM, OS}, {"PENDING_REVIEW"}),
   rejectDocument  |-> Endpoint({ADMIN, OM, OS}, {"PENDING_REVIEW"})]

(* An unapproved courier is never online, so nobody sets him offline. *)
CourierEndpoints ==
  [setOnline  |-> Endpoint({ADMIN, OM, OS}, {"ONLINE", "OFFLINE"}),
   setOffline |-> Endpoint({ADMIN, OM, OS}, {"ONLINE", "OFFLINE"})]

CustomerEndpoints ==
  [saveCustomer |-> Endpoint({ADMIN, OM, ACC}, CustomerTypes),
   saveCredit   |-> Endpoint({ADMIN}, {"CORPORATE"})]

(* No key tells a repeated transaction or rule; a user's e-mail is unique. *)
FormEndpoints ==
  [postTransaction |-> Endpoint({ADMIN, ACC}, {"FILLED", "POSTED"}),
   postDebit       |-> Endpoint({ADMIN, ACC}, {"FILLED", "POSTED"}),
   createUser      |-> Endpoint({ADMIN}, {"FILLED"}),
   createRule      |-> Endpoint({ADMIN, OM, ACC}, {"FILLED", "POSTED"})]

RuleEndpoints ==
  [updateRule |-> Endpoint({ADMIN, OM, ACC}, {"EXISTS"}),
   deleteRule |-> Endpoint({ADMIN, OM}, {"EXISTS"})]

(* The courier's own: PATCH /couriers/me, his documents, his payout, the   *)
(* status of his order.  The route that sends the documents to review is   *)
(* declared after the one that uploads, which takes its calls: never with  *)
(* success.                                                                *)
CourierAppEndpoints ==
  [requestPayout |-> Endpoint(courier, {"WITHDRAWABLE"}),
   goOnline      |-> Endpoint(courier, {"ONLINE", "OFFLINE"}),
   goOffline     |-> Endpoint(courier, {"ONLINE", "OFFLINE"}),
   saveBank      |-> Endpoint(courier, {"INCOMPLETE", "COMPLETE"}),
   upload        |-> Endpoint(courier, {"MISSING", "PENDING_REVIEW", "REJECTED"}),
   submitReview  |-> Endpoint(courier, {}),
   pickUp        |-> Endpoint(courier, {"ACCEPTED"}),
   leave         |-> Endpoint(courier, {"PICKED_UP"}),
   deliver       |-> Endpoint(courier, {"ON_DELIVERY"})]

(* An order is rated once, an e-mail address registered once. *)
PublicEndpoints ==
  [rate             |-> Endpoint(customer, {"DELIVERED"}),
   registerCourier  |-> Endpoint(anybody, {"FILLED"}),
   registerCustomer |-> Endpoint(anybody, {"FILLED"})]

AllEndpoints ==
  Merged(PayoutEndpoints, Merged(EarningEndpoints, Merged(OrderEndpoints,
    Merged(RegistrationEndpoints, Merged(DocumentEndpoints, Merged(CourierEndpoints,
      Merged(CustomerEndpoints, Merged(FormEndpoints, Merged(RuleEndpoints,
        Merged(CourierAppEndpoints, PublicEndpoints))))))))))

=============================================================================
