----------------------------- MODULE Navigation -----------------------------
(***************************************************************************)
(* Page navigation (_MainAppState, lib/main.dart).  The app is one         *)
(* PageView; every link, button and dot calls handleNavSelection, which    *)
(* rebuilds MainApp and jumps.  Only the page on screen is mounted.        *)
(***************************************************************************)
EXTENDS Naturals

VARIABLE selectedPageIndex

\* The children of the PageView.
Welcome1 == 0
Welcome2 == 1
Welcome3 == 2
ARWidget == 3
UserPage == 4
SettingsPage == 5
CommunityGuidelines == 6
MapPage == 7

Pages == Welcome1..MapPage

\* The buttons of the navbar, and the dots of the page indicator.
Navbar == {ARWidget, UserPage, MapPage}
Dots == {Welcome1, Welcome2, Welcome3}

\* Fault: the back button does not need a callback.
TopBarAlways(onPress, index) == {index}

\* The back button of a TopBar is shown when it was given a callback.
TopBar(onPress, index) == IF onPress THEN {index} ELSE {}

\* The links on the pages themselves.  UserPage has a TopBar with an index and
\* no callback.
Welcome1Links == {Welcome2}
Welcome2Links == {Welcome3}
Welcome3Links == {UserPage}
UserLinks == TopBar(FALSE, Welcome2) \cup {SettingsPage}
SettingsLinks == TopBar(TRUE, UserPage) \cup {CommunityGuidelines}
GuidelinesLinks == TopBar(TRUE, SettingsPage)

PageLinks ==
  [p \in Pages |->
     CASE p = Welcome1 -> Welcome1Links
       [] p = Welcome2 -> Welcome2Links
       [] p = Welcome3 -> Welcome3Links
       [] p = UserPage -> UserLinks
       [] p = SettingsPage -> SettingsLinks
       [] p = CommunityGuidelines -> GuidelinesLinks
       [] OTHER -> {}]

\* Where the user can go from p.
Links(p) == PageLinks[p] \cup (IF p > 2 THEN Navbar ELSE Dots)

handleNavSelection(index) ==
  /\ index \in Links(selectedPageIndex)
  /\ selectedPageIndex' = index

NavInit == selectedPageIndex = Welcome1
=============================================================================
