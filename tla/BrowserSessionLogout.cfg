SPECIFICATION Spec
CONSTANTS
    Sessions = {s1}
    MaxTokens = 3
    tab1 = tab1
    tab2 = tab2
    Tabs = {tab1, tab2}
    Calls <- MCCalls
    MaxLate = 1
    MaxForms = 1
PROPERTIES
    LogoutRevokes
