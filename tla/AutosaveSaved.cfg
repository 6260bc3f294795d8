SPECIFICATION Spec
CONSTANTS
    tab1 = tab1
    tab2 = tab2
    Editors = {tab1, tab2}
    foo = foo
    foo_ = foo_
    Texts = {foo, foo_, bar}
    Normal <- MCNormal
    None = None
    MaxInputs <- MCMaxInputs
INVARIANT SavedIsOnServer
CHECK_DEADLOCK FALSE
